---- MODULE Spec2Model ----
(***************************************************************************)
(* Control plane of the UWS orchestrator: the catalog (nodes, containers,  *)
(* managed services), the HTTP handlers that register, launch, start,      *)
(* stop, delete, configure and health-check, the router operations that    *)
(* forward to a managed service, the background sweeps, and the terminal   *)
(* proxy (variable ws).  Urls, addresses and header values are text, the   *)
(* sequence of their characters, and are rewritten as the code rewrites    *)
(* them.  The nodes are the environment: they answer any RPC in any way;   *)
(* where the containers on a node matter (SpecTeardown) the node serves    *)
(* each RPC it is sent and variable docker holds what it has done.         *)
(*                                                                         *)
(* Granularity: one step per stretch of handler code between two awaits of *)
(* an outbound HTTP call.  One HTTP request with awaits is in flight at a  *)
(* time (variable req); register_node is a single step; the service health *)
(* sweep (variable sw) and the node liveness sweep (variable hc) run       *)
(* concurrently with the requests and with each other.  datetime.utcnow()  *)
(* is the logical clock events.                                            *)
(*                                                                         *)
(* Catalog access follows the SQLAlchemy session each handler uses         *)
(* (sessionmaker(autocommit=False, autoflush=False)): attribute writes     *)
(* reach the catalog at db.commit(); the UPDATE of a row carries the       *)
(* columns whose value differs from what the session loaded; an UPDATE of  *)
(* a row deleted meanwhile makes the commit raise and roll back; a commit  *)
(* or rollback expires the rows the session holds, which are read again on *)
(* their next access; a row the session holds unexpired is not read again. *)
(* Foreign keys are declared but not enforced (SQLite, the default).       *)
(***************************************************************************)
EXTENDS Integers, Sequences, FiniteSets, TLC

\* ---------------------------------------------------------------- bounds
MaxContainers == 2      \* container rows ever created
MaxServices   == 2      \* service rows ever created
MAX_RETRIES   == 2      \* readiness polling attempts (60 in the source)
MaxEvents     == 4      \* requests and sweeps begun in a run
MaxSessions   == 2      \* terminal proxy sessions in a run

\* ---------------------------------------------------------------- text
\* a str is the sequence of its characters
RECURSIVE Find(_, _, _)
\* the least index from i on at which sub occurs in s, 0 if there is none
Find(s, sub, i) ==
  IF i + Len(sub) - 1 > Len(s) THEN 0
  ELSE IF SubSeq(s, i, i + Len(sub) - 1) = sub THEN i
  ELSE Find(s, sub, i + 1)

\* sub in s
Contains(s, sub) == Find(s, sub, 1) # 0

RECURSIVE Replace(_, _, _)
\* s.replace(old, new): every occurrence of old, from the left, none overlapping
Replace(s, old, new) ==
  LET i == Find(s, old, 1) IN
    IF i = 0 THEN s
    ELSE SubSeq(s, 1, i - 1) \o new
           \o Replace(SubSeq(s, i + Len(old), Len(s)), old, new)

RECURSIVE Split(_, _)
\* s.split(sep): the pieces of s between the occurrences of sep
Split(s, sep) ==
  LET i == Find(s, sep, 1) IN
    IF i = 0 THEN <<s>>
    ELSE <<SubSeq(s, 1, i - 1)>> \o Split(SubSeq(s, i + Len(sep), Len(s)), sep)

RECURSIVE Strip(_)
\* s.strip(): s without the blanks at its two ends
Strip(s) ==
  IF s # <<>> /\ Head(s) = " " THEN Strip(Tail(s))
  ELSE IF s # <<>> /\ s[Len(s)] = " " THEN Strip(SubSeq(s, 1, Len(s) - 1))
  ELSE s

Http      == <<"h", "t", "t", "p", ":", "/", "/">>
Sentinel  == <<"0", ".", "0", ".", "0", ".", "0">>             \* "0.0.0.0"
Loopback4 == <<"1", "2", "7", ".", "0", ".", "0", ".", "1">>   \* "127.0.0.1"
Loopback6 == <<":", ":", "1">>                                 \* "::1"
Ip(d)     == <<"1", "0", ".", "0", ".", "0", ".", d>>          \* "10.0.0.d"

NodeIds  == {"n1", "n2"}
Hosts    == {Ip("5"), Sentinel}   \* the host a node puts into the url it registers
Kinds    == <<"bucket", "db", "nosql", "queue", "secrets">>
KindSet  == {Kinds[i] : i \in 1..Len(Kinds)}
Generic  == "generic"
\* the launch routes a run calls: the first, a middle and the last table of the
\* service health sweep, and the generic /launch
LaunchKinds == {"bucket", "db", "secrets", Generic}
RamLimits == {2048, 4096}     \* max_ram_mb: the column's default and another value

\* A registered url: scheme://host:port
Url(h)   == Http \o h \o <<":", "9", "0", "0", "0">>
Urls     == {Url(h) : h \in Hosts}

\* who sends a registration: request.client.host and request.headers
NoHeaders    == [h \in {} |-> <<>>]
Forwarded(v) == [h \in {"x-forwarded-for"} |-> v]
Peers    == {[client |-> Ip("6"), headers |-> NoHeaders],
             [client |-> Ip("6"), headers |-> Forwarded(Ip("7"))],
             [client |-> Loopback4,
              headers |-> Forwarded(Ip("6") \o <<",", " ">> \o Ip("7"))]}

VARIABLES
  nodes,              \* table nodes: node_id -> [url, is_healthy, last_health_check]
  nodeOrder,          \* insertion order of the node rows
  containers,         \* table containers: container_id -> [node_id, status]
  services,           \* the five *_services tables: service_id -> row
  nextCid, nextSid,   \* ids handed out so far (node ids / uuid4 are fresh)
  ACTIVE_NODES, ACTIVE_CONTAINERS, ACTIVE_SERVICES,   \* Prometheus gauges
  req,                \* the in-flight HTTP request
  sw,                 \* the service health sweep
  hc,                 \* the node liveness sweep
  ws,                 \* the terminal proxy sessions
  WEBSOCKET_CONNECTIONS,   \* Prometheus gauge of the terminal proxy sessions
  docker,             \* the containers on the nodes as the nodes have them, and
                      \* the RPCs the nodes have served; followed in
                      \* SpecTeardown only
  events              \* how many requests and sweeps have begun; also the
                      \* clock that datetime.utcnow() reads

catalog == <<nodes, nodeOrder, containers, services>>
ids     == <<nextCid, nextSid>>
gauges  == <<ACTIVE_NODES, ACTIVE_CONTAINERS, ACTIVE_SERVICES>>
terminal == <<ws, WEBSOCKET_CONNECTIONS, docker>>
vars    == <<nodes, nodeOrder, containers, services, nextCid, nextSid,
             ACTIVE_NODES, ACTIVE_CONTAINERS, ACTIVE_SERVICES, req, sw, hc,
             ws, WEBSOCKET_CONNECTIONS, docker, events>>

\* ---------------------------------------------------------------- helpers
Put(f, k, v)  == [x \in DOMAIN f \cup {k} |-> IF x = k THEN v ELSE f[x]]
Remove(f, k)  == [x \in DOMAIN f \ {k} |-> f[x]]
Empty         == [x \in {} |-> x]

RECURSIVE SortedSeq(_)
\* rows come back from a query in key order
SortedSeq(S) ==
  IF S = {} THEN <<>>
  ELSE LET m == CHOOSE x \in S : \A y \in S : x <= y
       IN  <<m>> \o SortedSeq(S \ {m})

\* url.split("://")[1].split(":")[0]
HostOf(url) == Split(Split(url, <<":", "/", "/">>)[2], <<":">>)[1]

\* db.query(Node).filter(Node.is_healthy == True).all()
HealthyNodes(ns, order) == SelectSeq(order, LAMBDA n : ns[n].is_healthy)

\* db.query(Container).filter(Container.status == "running").count()
RunningCount(cs) == Cardinality({c \in DOMAIN cs : cs[c].status = "running"})

Idle == [op |-> "idle", pc |-> "idle", kind |-> "", node |-> "", url |-> Url(Ip("5")),
         cid |-> 0, sid |-> 0, tries |-> 0, status |-> 0, detail |-> "",
         ip |-> <<>>, port |-> 0, rpcs |-> <<>>, cst |-> "", was |-> FALSE,
         before |-> 0]

Rpc(op, n, c) == [op |-> op, node |-> n, cid |-> c]

\* a handler's answer: the request stays visible in pc "done" until ReqReturn
Done(r, code, detail) == [r EXCEPT !.pc = "done", !.status = code, !.detail = detail]

\* the sweep between two sweeps.  list/idx/count: the loop over the rows of kind
\* Kinds[k]; loaded: the rows as the session read them; pending: attribute
\* writes not yet committed; expired: a commit or rollback of the sweep's
\* session has expired the rows loaded for this kind; seen: node rows the session
\* holds; cid/node/cst: container and node resolved by restart_failed_service.
\* History of the current sweep: rpcs (node RPCs issued), answered (services
\* whose start RPC the node answered 200), healed / failed (restart returned
\* True / False), counted (rows added to a healthy_<kind> counter), result (how
\* the sweep ended), quiet / began (no request was in flight, and the value of
\* events, when the sweep began).
SwIdle == [pc |-> "idle", k |-> 1, list |-> <<>>, idx |-> 1, count |-> 0,
           loaded |-> Empty, pending |-> Empty, expired |-> FALSE, seen |-> Empty,
           cst |-> "", cid |-> 0, node |-> "",
           rpcs |-> <<>>, answered |-> {}, healed |-> {}, failed |-> {},
           counted |-> {}, result |-> "", quiet |-> TRUE, began |-> 0]

\* the liveness sweep between two sweeps.  list/idx/healthy_count: the loop over
\* the node rows; was: is_healthy of the current node as the session read it;
\* health_url: the url the probe in flight was sent to, less its "/health".
\* History: probed, the probes answered in the current sweep or, between two
\* sweeps, in the last one
HcIdle == [pc |-> "idle", list |-> <<>>, idx |-> 1, healthy_count |-> 0,
           was |-> FALSE, health_url |-> <<>>, probed |-> <<>>]

\* a terminal proxy session that no client has opened yet.  pc: where
\* terminal_proxy is; node_id: the path parameter; client / node: the two
\* sockets as their far ends left them; up / down: the copy tasks user_to_node
\* and node_to_user ("recv": waiting for a frame, "send": forwarding one,
\* "ended": returned)
Sessions == 1..MaxSessions
WsNone == [pc |-> "none", node_id |-> "", client |-> "none", node |-> "none",
           up |-> "none", down |-> "none", sent |-> "none", close |-> 0,
           container_id |-> <<>>, node_ws_url |-> <<>>]

\* ---------------------------------------------------------------- initial state
\* no container of any node is followed
NoDocker == [state |-> Empty, served |-> Empty]

Init ==
  /\ nodes = Empty
  /\ nodeOrder = <<>>
  /\ containers = Empty
  /\ services = Empty
  /\ nextCid = 0
  /\ nextSid = 0
  /\ ACTIVE_NODES = 0
  /\ ACTIVE_CONTAINERS = 0
  /\ ACTIVE_SERVICES = [k \in KindSet |-> 0]
  /\ req = Idle
  /\ sw = SwIdle
  /\ hc = HcIdle
  /\ ws = [i \in Sessions |-> WsNone]
  /\ WEBSOCKET_CONNECTIONS = 0
  /\ docker = NoDocker
  /\ events = 0

\* ---------------------------------------------------------------- node registry
\* the client IP register_node substitutes: the first entry of
\* X-Forwarded-For when the peer is loopback and the header is there, the peer
\* otherwise
ClientIp(peer) ==
  IF peer.client \in {Loopback4, Loopback6} /\ "x-forwarded-for" \in DOMAIN peer.headers
    THEN Strip(Split(peer.headers["x-forwarded-for"], <<",">>)[1])
    ELSE peer.client

\* url.replace("0.0.0.0", client_ip) if "0.0.0.0" in url
Substitute(url, peer) ==
  IF Contains(url, Sentinel) THEN Replace(url, Sentinel, ClientIp(peer)) ELSE url

\* variant of RegisterNode that also rewrites the address of the services placed
\* on the node to the newly registered host
RegisterNodeRebind(n, url, peer) ==
  /\ nodes' = Put(nodes, n, [url |-> Substitute(url, peer), is_healthy |-> TRUE,
                             last_health_check |->
                               IF n \in DOMAIN nodes THEN nodes[n].last_health_check
                                                     ELSE events'])
  /\ nodeOrder' = IF n \in DOMAIN nodes THEN nodeOrder ELSE Append(nodeOrder, n)
  /\ ACTIVE_NODES' = Cardinality({m \in DOMAIN nodes' : nodes'[m].is_healthy})
  /\ services' = [s \in DOMAIN services |->
                    IF services[s].node_id = n
                      THEN [services[s] EXCEPT !.ip_address = HostOf(Substitute(url, peer))]
                      ELSE services[s]]
  /\ UNCHANGED <<containers, ids, ACTIVE_CONTAINERS, ACTIVE_SERVICES, req, sw, hc, terminal>>

\* variant of RegisterNode that stores the url as it was sent
RegisterNodeLiteralUrl(n, url, peer) ==
  /\ nodes' = IF n \in DOMAIN nodes
                THEN [nodes EXCEPT ![n].url = url, ![n].is_healthy = TRUE]
                ELSE Put(nodes, n, [url |-> url, is_healthy |-> TRUE,
                                    last_health_check |-> events'])
  /\ nodeOrder' = IF n \in DOMAIN nodes THEN nodeOrder ELSE Append(nodeOrder, n)
  /\ ACTIVE_NODES' = Cardinality({m \in DOMAIN nodes' : nodes'[m].is_healthy})
  /\ UNCHANGED <<containers, services, ids, ACTIVE_CONTAINERS, ACTIVE_SERVICES,
                 req, sw, hc, terminal>>

\* variant of RegisterNode that leaves the health mark of a known node alone
RegisterNodeKeepHealth(n, url, peer) ==
  /\ nodes' = IF n \in DOMAIN nodes
                THEN [nodes EXCEPT ![n].url = Substitute(url, peer)]
                ELSE Put(nodes, n, [url |-> Substitute(url, peer), is_healthy |-> TRUE,
                                    last_health_check |-> events'])
  /\ nodeOrder' = IF n \in DOMAIN nodes THEN nodeOrder ELSE Append(nodeOrder, n)
  /\ ACTIVE_NODES' = Cardinality({m \in DOMAIN nodes' : nodes'[m].is_healthy})
  /\ UNCHANGED <<containers, services, ids, ACTIVE_CONTAINERS, ACTIVE_SERVICES,
                 req, sw, hc, terminal>>

\* POST /register_node/{node_id}?url= : no await inside, one step
RegisterNode(n, url, peer) ==
  /\ nodes' = IF n \in DOMAIN nodes
                THEN \* last_seen, written here too, is read nowhere
                     [nodes EXCEPT ![n].url = Substitute(url, peer),
                                   ![n].is_healthy = TRUE]
                ELSE Put(nodes, n, [url |-> Substitute(url, peer), is_healthy |-> TRUE,
                                    last_health_check |-> events'])
  /\ nodeOrder' = IF n \in DOMAIN nodes THEN nodeOrder ELSE Append(nodeOrder, n)
  /\ ACTIVE_NODES' = Cardinality({m \in DOMAIN nodes' : nodes'[m].is_healthy})
  /\ UNCHANGED <<containers, services, ids, ACTIVE_CONTAINERS, ACTIVE_SERVICES,
                 req, sw, hc, terminal>>

\* ---------------------------------------------------------------- node liveness
\* what a node answers to an RPC: an HTTP status, or 0 for a network error / timeout
NodeReplies == {200, 404, 500, 0}

\* variant of ProbeWrite that writes back a probe that passed only
ProbeWritePassOnly(ns, n, was, is_healthy, now) ==
  [ns EXCEPT ![n].is_healthy = IF is_healthy /\ ~was THEN TRUE ELSE @,
             ![n].last_health_check = now]

\* health_check_node after the answer: node.is_healthy = ...;
\* node.last_health_check = utcnow(); db.commit().  The UPDATE carries
\* is_healthy only if it differs from what the session read before the probe
ProbeWrite(ns, n, was, is_healthy, now) ==
  [ns EXCEPT ![n].is_healthy = IF is_healthy # was THEN is_healthy ELSE @,
             ![n].last_health_check = now]

\* variant of LivenessGoesOn that gives the sweep up at the first failed probe
LivenessGoesOnFailFast(st, ns) ==
  IF /\ st.idx <= Len(st.list)
     /\ st.probed # <<>> => st.probed[Len(st.probed)].healthy
    THEN /\ hc' = [st EXCEPT !.pc = "probe", !.was = ns[st.list[st.idx]].is_healthy,
                             !.health_url = ns[st.list[st.idx]].url]
         /\ UNCHANGED ACTIVE_NODES
    ELSE /\ hc' = [st EXCEPT !.pc = "done", !.health_url = <<>>]
         /\ ACTIVE_NODES' = st.healthy_count

\* health_check_loop from the top of "for node in nodes" up to its next await:
\* the probe of the next node (node.url reads the row again, the commit of the
\* previous probe has expired it), or, past the last one, ACTIVE_NODES.set
LivenessGoesOn(st, ns) ==
  IF st.idx <= Len(st.list)
    THEN /\ hc' = [st EXCEPT !.pc = "probe", !.was = ns[st.list[st.idx]].is_healthy,
                             !.health_url = ns[st.list[st.idx]].url]
         /\ UNCHANGED ACTIVE_NODES
    ELSE /\ hc' = [st EXCEPT !.pc = "done", !.health_url = <<>>]
         /\ ACTIVE_NODES' = st.healthy_count

\* health_check_loop wakes up: db.query(Node).all()
LivenessStart ==
  /\ hc.pc = "idle"
  /\ LivenessGoesOn([HcIdle EXCEPT !.list = nodeOrder], nodes)
  /\ UNCHANGED <<catalog, ids, ACTIVE_CONTAINERS, ACTIVE_SERVICES, req, sw, terminal>>

\* the answer to GET /health of the current node (an exception counts as
\* unhealthy), written back and committed
LivenessReply(reply) ==
  /\ hc.pc = "probe"
  /\ LET n == hc.list[hc.idx]
         is_healthy == (reply = 200)
     IN /\ nodes' = ProbeWrite(nodes, n, hc.was, is_healthy, events)
        /\ LivenessGoesOn([hc EXCEPT !.idx = hc.idx + 1,
                              !.healthy_count = IF is_healthy THEN @ + 1 ELSE @,
                              !.probed = Append(@, [node |-> n, healthy |-> is_healthy])],
                          nodes')
  /\ UNCHANGED <<nodeOrder, containers, services, ids, ACTIVE_CONTAINERS,
                 ACTIVE_SERVICES, req, sw, terminal>>

\* the sweep is over; asyncio.sleep(HEALTH_CHECK_INTERVAL)
LivenessSleep ==
  /\ hc.pc = "done"
  /\ hc' = [HcIdle EXCEPT !.probed = hc.probed]
  /\ UNCHANGED <<catalog, ids, gauges, req, sw, terminal>>

\* GET /health_check/{node_id} up to the probe
ManualHealthCheck(n) ==
  /\ req.pc = "idle"
  /\ LET r == [Idle EXCEPT !.op = "manual_health_check", !.node = n] IN
       IF n \notin DOMAIN nodes
         THEN req' = Done(r, 404, "Node not found")
         ELSE req' = [r EXCEPT !.pc = "node_probe", !.url = nodes[n].url,
                               !.was = nodes[n].is_healthy]
  /\ UNCHANGED <<catalog, ids, gauges, sw, hc, terminal>>

\* the node's answer to the manual probe
ManualHealthCheckReply(reply) ==
  /\ req.pc = "node_probe"
  /\ LET is_healthy == (reply = 200) IN
       /\ nodes' = ProbeWrite(nodes, req.node, req.was, is_healthy, events)
       /\ req' = Done(req, 200, IF is_healthy THEN "healthy" ELSE "unhealthy")
  /\ UNCHANGED <<nodeOrder, containers, services, ids, gauges, sw, hc, terminal>>

\* ---------------------------------------------------------------- launches
\* variant of LaunchPlace that places on the first registered node, healthy or not
LaunchPlaceAnyNode(k) ==
  /\ req.pc = "idle"
  /\ IF nodeOrder = <<>>
       THEN req' = Done([Idle EXCEPT !.op = "launch", !.kind = k], 503,
                        "No healthy nodes available")
       ELSE /\ nextCid < MaxContainers
            /\ k # Generic => nextSid < MaxServices
            /\ req' = [Idle EXCEPT !.op = "launch", !.kind = k, !.pc = "launching",
                                   !.node = nodeOrder[1],
                                   !.url = nodes[nodeOrder[1]].url,
                                   !.rpcs = <<Rpc("launch", nodeOrder[1], 0)>>]
  /\ UNCHANGED <<catalog, ids, gauges, sw, hc, terminal>>

\* variant of LaunchPlace that places on the last healthy node of the query
LaunchPlaceLastHealthy(k) ==
  /\ req.pc = "idle"
  /\ LET healthy_nodes == HealthyNodes(nodes, nodeOrder) IN
       IF healthy_nodes = <<>>
         THEN req' = Done([Idle EXCEPT !.op = "launch", !.kind = k], 503,
                          "No healthy nodes available")
         ELSE /\ nextCid < MaxContainers
              /\ k # Generic => nextSid < MaxServices
              /\ LET selected_node == healthy_nodes[Len(healthy_nodes)] IN
                   req' = [Idle EXCEPT !.op = "launch", !.kind = k, !.pc = "launching",
                                       !.node = selected_node,
                                       !.url = nodes[selected_node].url,
                                       !.rpcs = <<Rpc("launch", selected_node, 0)>>]
  /\ UNCHANGED <<catalog, ids, gauges, sw, hc, terminal>>

\* launch_container / launch_<kind>_service up to the launch RPC:
\* placement on the first healthy node, 503 when there is none
LaunchPlace(k) ==
  /\ req.pc = "idle"
  /\ LET healthy_nodes == HealthyNodes(nodes, nodeOrder) IN
       IF healthy_nodes = <<>>
         THEN req' = Done([Idle EXCEPT !.op = "launch", !.kind = k], 503,
                          "No healthy nodes available")
         ELSE /\ nextCid < MaxContainers
              /\ k # Generic => nextSid < MaxServices
              /\ LET selected_node == healthy_nodes[1] IN
                   req' = [Idle EXCEPT !.op = "launch", !.kind = k, !.pc = "launching",
                                       !.node = selected_node,
                                       !.url = nodes[selected_node].url,
                                       !.rpcs = <<Rpc("launch", selected_node, 0)>>]
  /\ UNCHANGED <<catalog, ids, gauges, sw, hc, terminal>>

\* variant of LaunchReply that stores the container row whatever the node
\* answered
LaunchReplyKeepRow(reply) ==
  /\ req.pc = "launching"
  /\ LET container_id == nextCid + 1 IN
       /\ nextCid' = container_id
       /\ containers' = Put(containers, container_id,
                            [node_id |-> req.node, status |-> "running"])
       /\ IF reply # 200
            THEN /\ req' = Done(req, 500, "launch-failed")
                 /\ UNCHANGED ACTIVE_CONTAINERS
            ELSE IF req.kind = Generic
              THEN /\ ACTIVE_CONTAINERS' = RunningCount(containers')
                   /\ req' = [Done(req, 200, "") EXCEPT !.cid = container_id]
              ELSE /\ UNCHANGED ACTIVE_CONTAINERS
                   /\ req' = [req EXCEPT !.pc = "polling", !.cid = container_id,
                                         !.tries = 0]
  /\ UNCHANGED <<nodes, nodeOrder, services, nextSid, ACTIVE_NODES, ACTIVE_SERVICES,
                 sw, hc, terminal>>

\* the node's answer to the launch RPC; on 200 the container row is committed
LaunchReply(reply) ==
  /\ req.pc = "launching"
  /\ IF reply # 200
       THEN \* HTTPException(resp.status_code) and network errors both end in
            \* the handler's "except Exception", which answers 500
            /\ req' = Done(req, 500, "launch-failed")
            /\ UNCHANGED <<containers, nextCid, ACTIVE_CONTAINERS>>
       ELSE LET container_id == nextCid + 1 IN
            /\ nextCid' = container_id
            /\ containers' = Put(containers, container_id,
                                 [node_id |-> req.node, status |-> "running"])
            /\ IF req.kind = Generic
                 THEN /\ ACTIVE_CONTAINERS' = RunningCount(containers')
                      /\ req' = [Done(req, 200, "") EXCEPT !.cid = container_id]
                 ELSE /\ UNCHANGED ACTIVE_CONTAINERS
                      /\ req' = [req EXCEPT !.pc = "polling", !.cid = container_id,
                                            !.tries = 0]
  /\ UNCHANGED <<nodes, nodeOrder, services, nextSid, ACTIVE_NODES, ACTIVE_SERVICES,
                 sw, hc, terminal>>

\* <Kind>Service(service_id=..., status="running", is_healthy=True, ...); a
\* db_services row also carries its resource limits
ServiceRow(kind, container_id, node_id, ip_address, port) ==
  LET row == [kind |-> kind, container_id |-> container_id, node_id |-> node_id,
              ip_address |-> ip_address, port |-> port,
              status |-> "running", is_healthy |-> TRUE]
  IN IF kind = "db"
       THEN [f \in DOMAIN row \cup {"max_ram_mb"} |->
               IF f = "max_ram_mb" THEN 2048 ELSE row[f]]
       ELSE row

\* ---------------------------------------------------------------- readiness polling
\* a key of the ports map, "8000/tcp": the port number and the protocol suffix
PortKey(num, proto) == [num |-> num, proto |-> proto]

\* the service_port each launch_<kind>_service polls for
ServicePort(kind) ==
  PortKey(CASE kind = "bucket" -> "8000" [] kind = "db" -> "8010"
            [] kind = "nosql" -> "8020" [] kind = "queue" -> "8030"
            [] OTHER -> "8040", "/tcp")

\* key.replace("/tcp", "").replace("/udp", "")
Base(key) == IF key.proto \in {"/tcp", "/udp"} THEN key.num ELSE key.num \o key.proto

RECURSIVE ParseInt(_)
\* int("32801"), the string given digit by digit
ParseInt(digits) ==
  IF digits = <<>> THEN 0
  ELSE ParseInt(SubSeq(digits, 1, Len(digits) - 1)) * 10 + digits[Len(digits)]

\* the bindings a node reports for a container port: Docker's list of
\* {HostIp, HostPort}, a plain integer, or nothing
Published(digits) == [form |-> "list",
                      items |-> <<[HostIp |-> "0.0.0.0", HostPort |-> digits]>>]
Direct(port)      == [form |-> "int", value |-> port]
Unpublished       == [form |-> "null"]
EmptyList         == [form |-> "list", items |-> <<>>]
NoHostPort        == [form |-> "list", items |-> <<[HostIp |-> "0.0.0.0"]>>]

\* extract_host_port; None is 0 here: every reader of the result only tests its truth
extract_host_port(port_bindings) ==
  IF port_bindings.form = "list" /\ Len(port_bindings.items) > 0
    THEN LET first_binding == port_bindings.items[1] IN
         IF "HostPort" \in DOMAIN first_binding
           THEN ParseInt(first_binding.HostPort)
           ELSE 0
    ELSE IF port_bindings.form = "int" THEN port_bindings.value ELSE 0

\* the answer to GET /containers/{id}/ports: the map in key order, under the key
\* "ports" (wrapped) or as the whole answer.
\* ports_dict = ports_data.get("ports", {}); the answer itself if that is empty
\* and a key of the answer ends with /tcp or /udp
PortsDict(ports_data) ==
  IF ports_data.wrapped THEN ports_data.map
  ELSE IF \E i \in 1..Len(ports_data.map) :
             ports_data.map[i].key.proto \in {"/tcp", "/udp"}
         THEN ports_data.map
         ELSE <<>>

First(S) == CHOOSE i \in S : \A j \in S : i <= j

\* the three strategies of wait_for_service_container; 0: no usable port
FindHostPort(ports_data, service_port) ==
  LET ports_dict == PortsDict(ports_data)
      hp(i)   == extract_host_port(ports_dict[i].binding)
      exact   == {i \in 1..Len(ports_dict) : ports_dict[i].key = service_port}
      numeric == {i \in 1..Len(ports_dict) :
                    Base(ports_dict[i].key) = Base(service_port)}
      usable  == {i \in 1..Len(ports_dict) : hp(i) # 0}
      \* Strategy 1: "if service_port in ports_dict"; Strategy 2 is its elif:
      \* the first key with the same number, then break
      found12 == IF exact # {} THEN hp(First(exact))
                 ELSE IF numeric # {} THEN hp(First(numeric))
                 ELSE 0
  IN \* Strategy 3: "if not service_port_num", the first key with a host port
     IF found12 # 0 THEN found12
     ELSE IF usable # {} THEN hp(First(usable))
     ELSE 0

\* variant of PollAttempt that does not count an attempt that raised
PollAttemptFreeRetry(reply, ports_data) ==
  /\ req.pc = "polling"
  /\ req.tries < MAX_RETRIES
  /\ LET url == IF req.tries = 0 THEN nodes[req.node].url ELSE req.url
         sent == Append(req.rpcs, Rpc("ports", req.node, req.cid))
         service_port_num == IF reply = 200
                               THEN FindHostPort(ports_data, ServicePort(req.kind))
                               ELSE 0
     IN IF service_port_num # 0
          THEN LET service_id == nextSid + 1
                   node_ip == HostOf(url) IN
               /\ nextSid' = service_id
               /\ services' = Put(services, service_id,
                                 ServiceRow(req.kind, req.cid, req.node, node_ip,
                                            service_port_num))
               /\ ACTIVE_CONTAINERS' = RunningCount(containers)
               /\ req' = [Done(req, 200, "") EXCEPT !.url = url, !.rpcs = sent,
                             !.sid = service_id, !.ip = node_ip,
                             !.port = service_port_num]
          ELSE /\ req' = [req EXCEPT !.url = url, !.rpcs = sent,
                                     !.tries = IF reply = 0 THEN @ ELSE @ + 1]
               /\ UNCHANGED <<services, nextSid, ACTIVE_CONTAINERS>>
  /\ UNCHANGED <<nodes, nodeOrder, containers, nextCid, ACTIVE_NODES, ACTIVE_SERVICES, sw, hc, terminal>>

\* variant of PollAttempt that writes the service row at the first answer of
\* the node, host port or not
PollAttemptEagerRow(reply, ports_data) ==
  /\ req.pc = "polling"
  /\ req.tries < MAX_RETRIES
  /\ LET url == IF req.tries = 0 THEN nodes[req.node].url ELSE req.url
         sent == Append(req.rpcs, Rpc("ports", req.node, req.cid))
         service_port_num == IF reply = 200
                               THEN FindHostPort(ports_data, ServicePort(req.kind))
                               ELSE 0
     IN IF reply = 200
          THEN LET service_id == nextSid + 1
                   node_ip == HostOf(url) IN
               /\ nextSid' = service_id
               /\ services' = Put(services, service_id,
                                 ServiceRow(req.kind, req.cid, req.node, node_ip,
                                            service_port_num))
               /\ ACTIVE_CONTAINERS' = RunningCount(containers)
               /\ req' = [Done(req, 200, "") EXCEPT !.url = url, !.rpcs = sent,
                             !.sid = service_id, !.ip = node_ip,
                             !.port = service_port_num]
          ELSE /\ req' = [req EXCEPT !.url = url, !.rpcs = sent, !.tries = @ + 1]
               /\ UNCHANGED <<services, nextSid, ACTIVE_CONTAINERS>>
  /\ UNCHANGED <<nodes, nodeOrder, containers, nextCid, ACTIVE_NODES, ACTIVE_SERVICES, sw, hc, terminal>>

\* one attempt of wait_for_service_container: GET /containers/{id}/ports.  A
\* non-200 answer, an exception (reply 0) and an answer without a usable port
\* each use up the attempt
PollAttempt(reply, ports_data) ==
  /\ req.pc = "polling"
  /\ req.tries < MAX_RETRIES
  /\ LET \* selected_node was expired by the commit of the container row: its url
         \* is re-read from the catalog at the first attempt
         url == IF req.tries = 0 THEN nodes[req.node].url ELSE req.url
         sent == Append(req.rpcs, Rpc("ports", req.node, req.cid))
         service_port_num == IF reply = 200
                               THEN FindHostPort(ports_data, ServicePort(req.kind))
                               ELSE 0
     IN IF service_port_num # 0
          THEN LET service_id == nextSid + 1
                   node_ip == HostOf(url) IN
               /\ nextSid' = service_id
               /\ services' = Put(services, service_id,
                                 ServiceRow(req.kind, req.cid, req.node, node_ip,
                                            service_port_num))
               /\ ACTIVE_CONTAINERS' = RunningCount(containers)
               /\ req' = [Done(req, 200, "") EXCEPT !.url = url, !.rpcs = sent,
                             !.sid = service_id, !.ip = node_ip,
                             !.port = service_port_num]
          ELSE /\ req' = [req EXCEPT !.url = url, !.rpcs = sent, !.tries = @ + 1]
               /\ UNCHANGED <<services, nextSid, ACTIVE_CONTAINERS>>
  /\ UNCHANGED <<nodes, nodeOrder, containers, nextCid, ACTIVE_NODES, ACTIVE_SERVICES, sw, hc, terminal>>

\* variant of PollExhausted that rolls the container row back before answering
PollExhaustedCleanup ==
  /\ req.pc = "polling"
  /\ req.tries >= MAX_RETRIES
  /\ containers' = Remove(containers, req.cid)
  /\ req' = Done(req, 500, "not-ready")
  /\ UNCHANGED <<nodes, nodeOrder, services, ids, gauges, sw, hc, terminal>>

\* polling used up its attempts: "did not become ready in time"
PollExhausted ==
  /\ req.pc = "polling"
  /\ req.tries >= MAX_RETRIES
  /\ req' = Done(req, 500, "not-ready")
  /\ UNCHANGED <<catalog, ids, gauges, sw, hc, terminal>>

\* the response has been sent
ReqReturn ==
  /\ req.pc = "done"
  /\ req' = Idle
  /\ UNCHANGED <<catalog, ids, gauges, sw, hc, terminal>>


\* ---------------------------------------------------------------- containers
\* db.delete(container); db.commit(); ACTIVE_CONTAINERS.set(running count)
DeleteContainerRow(r) ==
  /\ containers' = Remove(containers, r.cid)
  /\ ACTIVE_CONTAINERS' = RunningCount(containers')
  /\ req' = Done(r, 200, "")

\* DELETE /containers/{id} up to the stop RPC (sent only to a healthy node)
DeleteContainer(c) ==
  /\ req.pc = "idle"
  /\ LET r == [Idle EXCEPT !.op = "delete_container", !.cid = c] IN
       IF c \notin DOMAIN containers
         THEN /\ req' = Done(r, 404, "Container not found")
              /\ UNCHANGED <<containers, ACTIVE_CONTAINERS>>
         ELSE LET n == containers[c].node_id IN
              IF n \in DOMAIN nodes /\ nodes[n].is_healthy
                THEN /\ req' = [r EXCEPT !.pc = "del_stop", !.node = n,
                                         !.rpcs = <<Rpc("stop", n, c)>>]
                     /\ UNCHANGED <<containers, ACTIVE_CONTAINERS>>
                ELSE DeleteContainerRow(r)
  /\ UNCHANGED <<nodes, nodeOrder, services, ids, ACTIVE_NODES, ACTIVE_SERVICES,
                 sw, hc, terminal>>

\* variant of DeleteContainerStopReply that keeps the row and answers 500 when
\* the node does not stop the container
DeleteContainerStopReplyStrict(reply) ==
  /\ req.pc = "del_stop"
  /\ IF reply = 200
       THEN /\ req' = [req EXCEPT !.pc = "del_delete",
                         !.rpcs = Append(req.rpcs, Rpc("delete", req.node, req.cid))]
            /\ UNCHANGED <<containers, ACTIVE_CONTAINERS>>
       ELSE /\ req' = Done(req, 500, "cleanup-failed")
            /\ UNCHANGED <<containers, ACTIVE_CONTAINERS>>
  /\ UNCHANGED <<nodes, nodeOrder, services, ids, ACTIVE_NODES, ACTIVE_SERVICES,
                 sw, hc, terminal>>

\* answer to the stop RPC: any status goes on to DELETE on the node,
\* a network error goes straight to the catalog cleanup
DeleteContainerStopReply(reply) ==
  /\ req.pc = "del_stop"
  /\ IF reply # 0
       THEN /\ req' = [req EXCEPT !.pc = "del_delete",
                         !.rpcs = Append(req.rpcs, Rpc("delete", req.node, req.cid))]
            /\ UNCHANGED <<containers, ACTIVE_CONTAINERS>>
       ELSE DeleteContainerRow(req)
  /\ UNCHANGED <<nodes, nodeOrder, services, ids, ACTIVE_NODES, ACTIVE_SERVICES,
                 sw, hc, terminal>>

\* answer to the node's DELETE: whatever it is, the row is removed
DeleteContainerDeleteReply(reply) ==
  /\ req.pc = "del_delete"
  /\ DeleteContainerRow(req)
  /\ UNCHANGED <<nodes, nodeOrder, services, ids, ACTIVE_NODES, ACTIVE_SERVICES,
                 sw, hc, terminal>>

\* POST /containers/{id}/start and /stop up to the RPC
StartStopContainer(c, what) ==
  /\ req.pc = "idle"
  /\ LET r == [Idle EXCEPT !.op = what, !.cid = c] IN
       IF c \notin DOMAIN containers
         THEN req' = Done(r, 404, "Container not found")
         ELSE LET n == containers[c].node_id IN
              IF n \in DOMAIN nodes /\ nodes[n].is_healthy
                THEN req' = [r EXCEPT !.pc = "startstop", !.node = n,
                                      !.cst = containers[c].status,
                                      !.rpcs = <<Rpc(what, n, c)>>]
                ELSE req' = Done(r, 503, "Container node is not available")
  /\ UNCHANGED <<catalog, ids, gauges, sw, hc, terminal>>

\* the status a start / stop / restart writes into the container row
StatusAfter(op) == IF op = "stop" THEN "stopped" ELSE "running"

\* container.status = ...; db.commit(): an UPDATE only if it changes the row as
\* this request read it
StartStopCommit ==
  /\ req.cid \in DOMAIN containers
  /\ containers' = IF req.cst # StatusAfter(req.op)
                      THEN [containers EXCEPT ![req.cid].status = StatusAfter(req.op)]
                      ELSE containers
  /\ req' = Done(req, 200, "")

\* variant of StartStopReply that writes the status before it looks at the
\* node's answer
StartStopReplyEager(reply) ==
  /\ req.pc = "startstop"
  /\ req.cid \in DOMAIN containers
  /\ containers' = [containers EXCEPT ![req.cid].status = StatusAfter(req.op)]
  /\ req' = IF reply = 200 THEN Done(req, 200, "") ELSE Done(req, 500, "node-error")
  /\ UNCHANGED <<nodes, nodeOrder, services, ids, gauges, sw, hc, terminal>>

\* answer to the start / stop / restart RPC: the row changes on 200 only.  A
\* node that answers 404 to /restart is sent a stop and then a start
StartStopReply(reply) ==
  /\ req.pc = "startstop"
  /\ IF reply = 200
       THEN StartStopCommit
       ELSE IF req.op = "restart" /\ reply = 404
         THEN /\ req' = [req EXCEPT !.pc = "restart_stop",
                           !.rpcs = Append(req.rpcs, Rpc("stop", req.node, req.cid))]
              /\ UNCHANGED containers
         ELSE /\ req' = Done(req, 500, "node-error")
              /\ UNCHANGED containers
  /\ UNCHANGED <<nodes, nodeOrder, services, ids, gauges, sw, hc, terminal>>

\* restart_container, answer to the stop: a status other than 200 is logged
\* and the start is sent all the same; a call that raised ends the request
RestartStopReply(reply) ==
  /\ req.pc = "restart_stop"
  /\ req' = IF reply = 0
              THEN Done(req, 500, "node-error")
              ELSE [req EXCEPT !.pc = "restart_start",
                      !.rpcs = Append(req.rpcs, Rpc("start", req.node, req.cid))]
  /\ UNCHANGED <<catalog, ids, gauges, sw, hc, terminal>>

\* restart_container, answer to the start that follows the stop
RestartStartReply(reply) ==
  /\ req.pc = "restart_start"
  /\ IF reply = 200
       THEN StartStopCommit
       ELSE /\ req' = Done(req, 500, "node-error")
            /\ UNCHANGED containers
  /\ UNCHANGED <<nodes, nodeOrder, services, ids, gauges, sw, hc, terminal>>

\* ---------------------------------------------------------------- service router
\* GET /{kind}-services/{id}
GetService(s) ==
  /\ req.pc = "idle"
  /\ LET r == [Idle EXCEPT !.op = "get_service", !.sid = s] IN
       IF s \notin DOMAIN services
         THEN req' = Done(r, 404, "service not found")
         ELSE req' = [Done(r, 200, "") EXCEPT !.kind = services[s].kind,
                         !.ip = services[s].ip_address, !.port = services[s].port]
  /\ UNCHANGED <<catalog, ids, gauges, sw, hc, terminal>>

\* GET /{kind}-services/{id}/health up to the probe of the service endpoint
CheckServiceHealth(s) ==
  /\ req.pc = "idle"
  /\ LET r == [Idle EXCEPT !.op = "check_health", !.sid = s] IN
       IF s \notin DOMAIN services
         THEN req' = Done(r, 404, "service not found")
         ELSE req' = [r EXCEPT !.pc = "hc_probe", !.kind = services[s].kind,
                               !.was = services[s].is_healthy]
  /\ UNCHANGED <<catalog, ids, gauges, sw, hc, terminal>>

\* the endpoint's answer: is_healthy is written and committed, status is not;
\* the UPDATE carries is_healthy only if it differs from what this request read
CheckServiceHealthReply(reply) ==
  /\ req.pc = "hc_probe"
  /\ req.sid \in DOMAIN services
  /\ LET is_healthy == (reply = 200) IN
       services' = IF is_healthy # req.was
                     THEN [services EXCEPT ![req.sid].is_healthy = is_healthy]
                     ELSE services
  /\ req' = IF reply = 0 THEN Done(req, 500, "health-check-failed")
                         ELSE Done(req, 200, "")
  /\ UNCHANGED <<nodes, nodeOrder, containers, ids, gauges, sw, hc, terminal>>

\* PUT /db-services/{id}/config up to the forward to the service: the limits
\* are committed to the catalog first
UpdateDbServiceConfig(s, ram) ==
  /\ req.pc = "idle"
  /\ LET r == [Idle EXCEPT !.op = "update_config", !.sid = s] IN
       IF s \notin DOMAIN services \/ services[s].kind # "db"
         THEN /\ req' = Done(r, 404, "DB service not found")
              /\ UNCHANGED services
         ELSE /\ services' = [services EXCEPT ![s].max_ram_mb = ram]
              \* before (history): the limit of the row when the request came
              /\ req' = [r EXCEPT !.pc = "cfg_forward", !.kind = "db",
                                  !.before = services[s].max_ram_mb,
                                  !.ip = services[s].ip_address,
                                  !.port = services[s].port]
  /\ UNCHANGED <<nodes, nodeOrder, containers, ids, gauges, sw, hc, terminal>>

\* the service's answer to POST /config/resource-limits: its status is not
\* looked at, a network error answers 500
UpdateDbServiceConfigReply(reply) ==
  /\ req.pc = "cfg_forward"
  /\ req' = IF reply = 0 THEN Done(req, 500, "config-update-failed")
                         ELSE Done(req, 200, "")
  /\ UNCHANGED <<catalog, ids, gauges, sw, hc, terminal>>

\* db.delete(container) if it was found; db.delete(service); db.commit()
RemoveServiceRows(r) ==
  /\ services' = Remove(services, r.sid)
  /\ containers' = IF r.cid # 0 THEN Remove(containers, r.cid) ELSE containers
  /\ req' = Done(r, 200, "")

\* DELETE /{kind}-services/{id} up to the stop RPC
RemoveService(s) ==
  /\ req.pc = "idle"
  /\ LET r == [Idle EXCEPT !.op = "remove_service", !.sid = s] IN
       IF s \notin DOMAIN services
         THEN /\ req' = Done(r, 404, "service not found")
              /\ UNCHANGED <<services, containers>>
         ELSE LET c    == services[s].container_id
                  has  == c \in DOMAIN containers
                  n    == IF has THEN containers[c].node_id ELSE ""
                  r2   == [r EXCEPT !.kind = services[s].kind,
                                    !.cid = IF has THEN c ELSE 0, !.node = n]
              IN IF has /\ n \in DOMAIN nodes /\ nodes[n].is_healthy
                   THEN /\ req' = [r2 EXCEPT !.pc = "rm_stop",
                                             !.rpcs = <<Rpc("stop", n, c)>>]
                        /\ UNCHANGED <<services, containers>>
                   ELSE RemoveServiceRows(r2)
  /\ UNCHANGED <<nodes, nodeOrder, ids, gauges, sw, hc, terminal>>

\* variant of RemoveServiceStopReply that gives up when the node does not stop
\* the container
RemoveServiceStopReplyStrict(reply) ==
  /\ req.pc = "rm_stop"
  /\ IF reply # 200
       THEN /\ req' = Done(req, 500, "teardown-failed")
            /\ UNCHANGED <<services, containers>>
       ELSE IF req.kind = "bucket"
         THEN /\ req' = [req EXCEPT !.pc = "rm_delete",
                           !.rpcs = Append(req.rpcs, Rpc("delete", req.node, req.cid))]
              /\ UNCHANGED <<services, containers>>
         ELSE RemoveServiceRows(req)
  /\ UNCHANGED <<nodes, nodeOrder, ids, gauges, sw, hc, terminal>>

\* answer to the stop RPC.  remove_bucket_service goes on to DELETE on the node
\* unless the stop raised; the other four kinds send the stop only
RemoveServiceStopReply(reply) ==
  /\ req.pc = "rm_stop"
  /\ IF req.kind = "bucket" /\ reply # 0
       THEN /\ req' = [req EXCEPT !.pc = "rm_delete",
                         !.rpcs = Append(req.rpcs, Rpc("delete", req.node, req.cid))]
            /\ UNCHANGED <<services, containers>>
       ELSE RemoveServiceRows(req)
  /\ UNCHANGED <<nodes, nodeOrder, ids, gauges, sw, hc, terminal>>

\* answer to the node's DELETE (bucket only)
RemoveServiceDeleteReply(reply) ==
  /\ req.pc = "rm_delete"
  /\ RemoveServiceRows(req)
  /\ UNCHANGED <<nodes, nodeOrder, ids, gauges, sw, hc, terminal>>


\* ---------------------------------------------------------------- service health sweep
\* db.query(<Kind>Service).all()
QueryKind(svc, kind) == SortedSeq({s \in DOMAIN svc : svc[s].kind = kind})

\* what the session remembers of a service row as its committed state
Snap(row) == [is_healthy |-> row.is_healthy, status |-> row.status]
Loaded(svc, list) == [s \in {list[i] : i \in 1..Len(list)} |-> Snap(svc[s])]

\* variant of Write that forgets service.is_healthy
WriteStatusOnly(loaded, h, st) == [is_healthy |-> <<>>,
                                  status |-> IF st = loaded.status THEN <<>> ELSE <<st>>]

\* service.is_healthy = h; service.status = st; service.last_health_check = now:
\* the row is dirty (last_health_check always changes); is_healthy and status
\* go into the UPDATE only if they differ from the committed state
Net(old, new) == IF new = old THEN <<>> ELSE <<new>>
Write(loaded, h, st) == [is_healthy |-> Net(loaded.is_healthy, h),
                         status |-> Net(loaded.status, st)]

\* db.commit(): one UPDATE per dirty row
Flush(svc, pending) ==
  [s \in DOMAIN svc |->
     IF s \in DOMAIN pending
       THEN [svc[s] EXCEPT
               !.is_healthy = IF pending[s].is_healthy = <<>> THEN @
                              ELSE pending[s].is_healthy[1],
               !.status = IF pending[s].status = <<>> THEN @
                          ELSE pending[s].status[1]]
       ELSE svc[s]]

\* an UPDATE of a row that a concurrent request deleted matches no row and
\* makes the commit raise (StaleDataError); the session is rolled back
CanFlush(svc, pending) == DOMAIN pending \subseteq DOMAIN svc

RECURSIVE Advance(_, _, _)
\* health_check_services from the top of a "for service in ..." loop up to its
\* next await: the probe of the next service of this kind, or, past the last
\* one, the gauge, the query of the next kind, ... , the final db.commit()
Advance(st, svc, g) ==
  IF st.idx <= Len(st.list)
    THEN LET s == st.list[st.idx] IN
         IF ~st.expired
           THEN [sw |-> [st EXCEPT !.pc = "probe"], gauge |-> g, svc |-> svc]
           ELSE IF s \in DOMAIN svc
             THEN \* service.ip_address reloads the expired row
                  [sw |-> [st EXCEPT !.pc = "probe",
                                     !.loaded = Put(st.loaded, s, Snap(svc[s]))],
                   gauge |-> g, svc |-> svc]
             ELSE \* the row is gone (ObjectDeletedError): the outer except
                  \* ends the sweep
                  [sw |-> [st EXCEPT !.pc = "done", !.result = "aborted",
                                     !.pending = Empty],
                   gauge |-> g, svc |-> svc]
    ELSE LET g2 == [g EXCEPT ![Kinds[st.k]] = st.count] IN
         IF st.k < Len(Kinds)
           THEN LET list == QueryKind(svc, Kinds[st.k + 1]) IN
                Advance([st EXCEPT !.k = st.k + 1, !.list = list,
                                   !.loaded = Loaded(svc, list),
                                   !.idx = 1, !.count = 0, !.expired = FALSE],
                        svc, g2)
           ELSE IF CanFlush(svc, st.pending)
                  THEN [sw |-> [st EXCEPT !.pc = "done", !.result = "completed",
                                          !.pending = Empty],
                        gauge |-> g2, svc |-> Flush(svc, st.pending)]
                  ELSE [sw |-> [st EXCEPT !.pc = "done", !.result = "commit-error",
                                          !.pending = Empty],
                        gauge |-> g2, svc |-> svc]

\* the sweep's writes of one step
SweepGoesOn(st, svc) ==
  LET a == Advance(st, svc, ACTIVE_SERVICES) IN
    /\ sw' = a.sw
    /\ services' = a.svc
    /\ ACTIVE_SERVICES' = a.gauge

\* variant of SweepStart driven by a timer: it does not wait for the sweep
\* before it
SweepStartOnTimer ==
  /\ sw.pc # "done"
  /\ LET list == QueryKind(services, Kinds[1]) IN
       SweepGoesOn([SwIdle EXCEPT !.list = list, !.loaded = Loaded(services, list),
                                  !.quiet = (req.pc = "idle"), !.began = events],
                   services)
  /\ UNCHANGED <<nodes, nodeOrder, containers, ids, ACTIVE_NODES, ACTIVE_CONTAINERS, req, hc, terminal>>

\* service_health_check_loop wakes up: health_check_services begins
SweepStart ==
  /\ sw.pc = "idle"
  /\ LET list == QueryKind(services, Kinds[1]) IN
       SweepGoesOn([SwIdle EXCEPT !.list = list, !.loaded = Loaded(services, list),
                                  !.quiet = (req.pc = "idle"), !.began = events],
                   services)
  /\ UNCHANGED <<nodes, nodeOrder, containers, ids, ACTIVE_NODES, ACTIVE_CONTAINERS, req, hc, terminal>>

\* variant of RestartTarget that does not look at the node's health mark
RestartTargetAnyNode(s, seen) ==
  IF s \notin DOMAIN services THEN [ok |-> FALSE, cid |-> 0, node |-> "", seen |-> seen]
  ELSE LET c == services[s].container_id IN
       IF c \notin DOMAIN containers
         THEN [ok |-> FALSE, cid |-> 0, node |-> "", seen |-> seen]
         ELSE LET n    == containers[c].node_id
                  node == IF n \in DOMAIN seen THEN seen[n] ELSE nodes[n]
              IN [ok |-> n \in DOMAIN nodes, cid |-> c, node |-> n,
                  seen |-> Put(seen, n, node)]

\* the synchronous head of restart_failed_service: which start RPC, if any.
\* seen: the node rows this session has loaded and not expired (a query for a
\* row the session already holds does not refresh it)
RestartTarget(s, seen) ==
  IF s \notin DOMAIN services THEN [ok |-> FALSE, cid |-> 0, node |-> "", seen |-> seen]
  ELSE LET c == services[s].container_id IN
       IF c \notin DOMAIN containers
         THEN [ok |-> FALSE, cid |-> 0, node |-> "", seen |-> seen]
         ELSE LET n    == containers[c].node_id
                  node == IF n \in DOMAIN seen THEN seen[n] ELSE nodes[n]
              IN IF n \notin DOMAIN nodes
                   THEN [ok |-> FALSE, cid |-> c, node |-> n, seen |-> seen]
                   ELSE [ok |-> node.is_healthy, cid |-> c, node |-> n,
                         seen |-> Put(seen, n, node)]

\* the answer of check_service_health for the current service
SweepProbeReply(is_healthy) ==
  /\ sw.pc = "probe"
  /\ LET s  == sw.list[sw.idx]
         p1 == Put(sw.pending, s,
                   Write(sw.loaded[s], is_healthy,
                         IF is_healthy THEN "running" ELSE "unhealthy"))
         t  == RestartTarget(s, sw.seen)
     IN IF is_healthy
          THEN SweepGoesOn([sw EXCEPT !.pending = p1, !.count = sw.count + 1,
                                      !.counted = sw.counted \cup {s},
                                      !.idx = sw.idx + 1], services)
          ELSE IF t.ok
            THEN /\ sw' = [sw EXCEPT !.pending = p1, !.pc = "restart",
                                     !.cid = t.cid, !.node = t.node, !.seen = t.seen,
                                     !.cst = containers[t.cid].status,
                                     !.rpcs = Append(sw.rpcs,
                                        [op |-> "start", node |-> t.node,
                                         cid |-> t.cid, sid |-> s])]
                 /\ UNCHANGED <<services, ACTIVE_SERVICES>>
            ELSE SweepGoesOn([sw EXCEPT !.pending = p1, !.seen = t.seen,
                                        !.failed = sw.failed \cup {s},
                                        !.idx = sw.idx + 1], services)
  /\ UNCHANGED <<nodes, nodeOrder, containers, ids, ACTIVE_NODES, ACTIVE_CONTAINERS, req, hc, terminal>>

\* the node's answer to POST /containers/{id}/start in restart_failed_service
SweepRestartReply(reply) ==
  /\ sw.pc = "restart"
  /\ LET s      == sw.list[sw.idx]
         next   == [sw EXCEPT !.idx = sw.idx + 1,
                              !.answered = IF reply = 200 THEN sw.answered \cup {s}
                                           ELSE sw.answered]
         p_ok   == Put(sw.pending, s, Write(sw.loaded[s], TRUE, "running"))
         p_fail == Put(sw.pending, s, Write(sw.loaded[s], FALSE, "failed"))
         \* container.status = "running" is an UPDATE only if it changes the row
         cwrite == sw.cst # "running"
         \* db.commit() expires every row the session holds
         after  == [next EXCEPT !.pending = Empty, !.expired = TRUE, !.seen = Empty]
         rolled == [after EXCEPT !.failed = sw.failed \cup {s}]
     IN CASE reply = 200 ->
               IF CanFlush(services, p_ok) /\ (cwrite => sw.cid \in DOMAIN containers)
                 THEN /\ containers' = IF cwrite
                           THEN [containers EXCEPT ![sw.cid].status = "running"]
                           ELSE containers
                      /\ SweepGoesOn([after EXCEPT !.count = sw.count + 1,
                                         !.healed = sw.healed \cup {s},
                                         !.counted = sw.counted \cup {s}],
                                     Flush(services, p_ok))
                 ELSE \* the commit raised: caught, restart returns False
                      /\ UNCHANGED containers
                      /\ SweepGoesOn(rolled, services)
          [] reply = 0 ->
               \* network error: caught, nothing is written, restart returns False
               /\ UNCHANGED containers
               /\ SweepGoesOn([next EXCEPT !.failed = sw.failed \cup {s}], services)
          [] OTHER ->
               /\ UNCHANGED containers
               /\ IF CanFlush(services, p_fail)
                    THEN SweepGoesOn([after EXCEPT !.failed = sw.failed \cup {s}],
                                     Flush(services, p_fail))
                    ELSE SweepGoesOn(rolled, services)
  /\ UNCHANGED <<nodes, nodeOrder, ids, ACTIVE_NODES, ACTIVE_CONTAINERS, req, hc, terminal>>

\* health_check_services has returned; asyncio.sleep until the next sweep
SweepSleep ==
  /\ sw.pc = "done"
  /\ sw' = SwIdle
  /\ UNCHANGED <<catalog, ids, gauges, req, hc, terminal>>

\* ---------------------------------------------------------------- terminal proxy
\* terminal_proxy never calls websocket.close(code): when the handler has
\* returned, the client's socket is closed by the server under it, as a normal
\* closure or as a dropped connection (no close frame)
ServerClose == {1000, 1006}

\* the handler leaves through its "finally": WEBSOCKET_CONNECTIONS.dec().
\* frame is what it sent to the client on its way out; a client that is still
\* there sees the frame and then the server's close
TerminalExit(i, frame) ==
  /\ \E code \in ServerClose :
       ws' = [ws EXCEPT ![i].pc = "exited",
                        ![i].sent = IF ws[i].client = "open" THEN frame ELSE "none",
                        ![i].close = IF ws[i].client = "open" THEN code ELSE 0]
  /\ WEBSOCKET_CONNECTIONS' = WEBSOCKET_CONNECTIONS - 1

\* the container_id path parameter of a terminal session
ContainerNames == {<<"c", "1">>}

\* f"ws://{node.url.replace('http://', '')}/ws/terminal/{container_id}"
NodeWsUrl(url, container_id) ==
  <<"w", "s", ":", "/", "/">> \o Replace(url, Http, <<>>)
    \o <<"/", "w", "s", "/", "t", "e", "r", "m", "i", "n", "a", "l", "/">>
    \o container_id

\* a client opens /ws/terminal/{node_id}/{container_id}: websocket.accept();
\* WEBSOCKET_CONNECTIONS.inc().  Sessions are numbered as they are accepted
TerminalAccept(i, n) ==
  /\ ws[i].pc = "none"
  /\ \A j \in Sessions : j < i => ws[j].pc # "none"
  /\ \E c \in ContainerNames :
       ws' = [ws EXCEPT ![i] = [WsNone EXCEPT !.pc = "accepted", !.node_id = n,
                                              !.client = "open", !.container_id = c]]
  /\ WEBSOCKET_CONNECTIONS' = WEBSOCKET_CONNECTIONS + 1
  /\ UNCHANGED <<catalog, ids, gauges, req, sw, hc, events, docker>>

\* variant of TerminalLookup that leaves for an unknown node without passing
\* through the "finally"
TerminalLookupNoDec(i) ==
  /\ ws[i].pc = "accepted"
  /\ IF ws[i].node_id \in DOMAIN nodes
       THEN /\ ws' = [ws EXCEPT ![i].pc = "dialing",
                                ![i].node_ws_url = NodeWsUrl(nodes[ws[i].node_id].url,
                                                             ws[i].container_id)]
            /\ UNCHANGED WEBSOCKET_CONNECTIONS
       ELSE /\ ws' = [ws EXCEPT ![i].pc = "exited"]
            /\ UNCHANGED WEBSOCKET_CONNECTIONS
  /\ UNCHANGED <<catalog, ids, gauges, req, sw, hc, events, docker>>

\* db.query(Node)...first(): for an unknown node the error frame is sent (or
\* the send raises) and the handler returns, else it builds the url of the
\* node's terminal and goes on to dial it
TerminalLookup(i) ==
  /\ ws[i].pc = "accepted"
  /\ IF ws[i].node_id \in DOMAIN nodes
       THEN /\ ws' = [ws EXCEPT ![i].pc = "dialing",
                                ![i].node_ws_url = NodeWsUrl(nodes[ws[i].node_id].url,
                                                             ws[i].container_id)]
            /\ UNCHANGED WEBSOCKET_CONNECTIONS
       ELSE TerminalExit(i, "Node not found")
  /\ UNCHANGED <<catalog, ids, gauges, req, sw, hc, events, docker>>

\* ws_client.connect(node_ws_url): connected, both copy tasks start and wait
\* for a frame; or the dial raises and the handler leaves
TerminalDial(i, connected) ==
  /\ ws[i].pc = "dialing"
  /\ IF connected
       THEN /\ ws' = [ws EXCEPT ![i].pc = "relay", ![i].node = "open",
                                ![i].up = "recv", ![i].down = "recv"]
            /\ UNCHANGED WEBSOCKET_CONNECTIONS
       ELSE TerminalExit(i, "none")
  /\ UNCHANGED <<catalog, ids, gauges, req, sw, hc, events, docker>>

\* the client sends a frame: websocket.receive_text() returns it to user_to_node
ClientFrame(i) ==
  /\ ws[i].pc = "relay" /\ ws[i].client = "open" /\ ws[i].up = "recv"
  /\ ws' = [ws EXCEPT ![i].up = "send"]
  /\ UNCHANGED <<catalog, ids, gauges, req, sw, hc, events, WEBSOCKET_CONNECTIONS, docker>>

\* the client goes away
ClientDisconnect(i) ==
  /\ ws[i].pc \in {"accepted", "dialing", "relay"} /\ ws[i].client = "open"
  /\ ws' = [ws EXCEPT ![i].client = "closed"]
  /\ UNCHANGED <<catalog, ids, gauges, req, sw, hc, events, WEBSOCKET_CONNECTIONS, docker>>

\* the node sends a frame: node_websocket.recv() returns it to node_to_user
NodeFrame(i) ==
  /\ ws[i].pc = "relay" /\ ws[i].node = "open" /\ ws[i].down = "recv"
  /\ ws' = [ws EXCEPT ![i].down = "send"]
  /\ UNCHANGED <<catalog, ids, gauges, req, sw, hc, events, WEBSOCKET_CONNECTIONS, docker>>

\* the node closes its end of the terminal
NodeClose(i) ==
  /\ ws[i].pc = "relay" /\ ws[i].node = "open"
  /\ ws' = [ws EXCEPT ![i].node = "closed"]
  /\ UNCHANGED <<catalog, ids, gauges, req, sw, hc, events, WEBSOCKET_CONNECTIONS, docker>>

\* user_to_node: websocket.receive_text() raises for a client that has gone
\* (caught by the task's "except Exception", the task returns);
\* node_websocket.send(data) raises for a node that has closed, else the task
\* waits for the next frame
UserToNode(i) ==
  /\ ws[i].pc = "relay"
  /\ \/ /\ ws[i].up = "recv" /\ ws[i].client = "closed"
        /\ ws' = [ws EXCEPT ![i].up = "ended"]
     \/ /\ ws[i].up = "send"
        /\ ws' = [ws EXCEPT ![i].up = IF ws[i].node = "open" THEN "recv" ELSE "ended"]
  /\ UNCHANGED <<catalog, ids, gauges, req, sw, hc, events, WEBSOCKET_CONNECTIONS, docker>>

\* node_to_user: node_websocket.recv() raises for a node that has closed;
\* websocket.send_text(data) raises for a client that has gone
NodeToUser(i) ==
  /\ ws[i].pc = "relay"
  /\ \/ /\ ws[i].down = "recv" /\ ws[i].node = "closed"
        /\ ws' = [ws EXCEPT ![i].down = "ended"]
     \/ /\ ws[i].down = "send"
        /\ ws' = [ws EXCEPT ![i].down = IF ws[i].client = "open" THEN "recv" ELSE "ended"]
  /\ UNCHANGED <<catalog, ids, gauges, req, sw, hc, events, WEBSOCKET_CONNECTIONS, docker>>

\* asyncio.gather returns once both tasks have returned: "async with" closes
\* the node connection and the handler leaves
TerminalGathered(i) ==
  /\ ws[i].pc = "relay" /\ ws[i].up = "ended" /\ ws[i].down = "ended"
  /\ \E code \in ServerClose :
       ws' = [ws EXCEPT ![i].pc = "exited", ![i].node = "closed",
                        ![i].close = IF ws[i].client = "open" THEN code ELSE 0]
  /\ WEBSOCKET_CONNECTIONS' = WEBSOCKET_CONNECTIONS - 1
  /\ UNCHANGED <<catalog, ids, gauges, req, sw, hc, events, docker>>

\* ---------------------------------------------------------------- specification
\* what a node answers to GET /containers/{id}/ports in a run: no port yet, or
\* the published port of the bucket image
PollAnswers ==
  {[wrapped |-> TRUE, map |-> <<>>],
   [wrapped |-> TRUE,
    map |-> <<[key |-> PortKey("8000", "/tcp"), binding |-> Published(<<3, 2, 8, 0, 1>>)]>>]}

CidSpace == 1..MaxContainers
SidSpace == 1..MaxServices

\* the environment of a run: a new request or sweep begins only
\* while the run's budget lasts; the steps of one already begun are not limited.
\* A finished request answers and a finished sweep goes to sleep before anything
\* else happens: pc "done" only exposes the answer / the sweep's outcome
Settled == req.pc # "done" /\ sw.pc # "done" /\ hc.pc # "done"
Begin == /\ Settled
         /\ events < MaxEvents
         /\ events' = events + 1
Goes == Settled /\ UNCHANGED events

Next ==
  \/ \E n \in NodeIds, u \in Urls, p \in Peers : Begin /\ RegisterNode(n, u, p)
  \/ Begin /\ LivenessStart
  \/ \E r \in NodeReplies : Goes /\ LivenessReply(r)
  \/ UNCHANGED events /\ LivenessSleep
  \/ \E n \in NodeIds : Begin /\ ManualHealthCheck(n)
  \/ \E r \in NodeReplies : Goes /\ ManualHealthCheckReply(r)
  \/ \E k \in LaunchKinds : Begin /\ LaunchPlace(k)
  \/ \E r \in NodeReplies : Goes /\ LaunchReply(r)
  \/ \E r \in NodeReplies, d \in PollAnswers : Goes /\ PollAttempt(r, d)
  \/ Goes /\ PollExhausted
  \/ \E c \in CidSpace : Begin /\ DeleteContainer(c)
  \/ \E r \in NodeReplies : Goes /\ DeleteContainerStopReply(r)
  \/ \E r \in NodeReplies : Goes /\ DeleteContainerDeleteReply(r)
  \/ \E c \in CidSpace, w \in {"start", "stop"} : Begin /\ StartStopContainer(c, w)
  \/ \E r \in NodeReplies : Goes /\ StartStopReply(r)
  \/ \E s \in SidSpace : Begin /\ GetService(s)
  \/ \E s \in SidSpace : Begin /\ CheckServiceHealth(s)
  \/ \E r \in NodeReplies : Goes /\ CheckServiceHealthReply(r)
  \/ \E s \in SidSpace, m \in RamLimits : Begin /\ UpdateDbServiceConfig(s, m)
  \/ \E r \in NodeReplies : Goes /\ UpdateDbServiceConfigReply(r)
  \/ \E s \in SidSpace : Begin /\ RemoveService(s)
  \/ \E r \in NodeReplies : Goes /\ RemoveServiceStopReply(r)
  \/ \E r \in NodeReplies : Goes /\ RemoveServiceDeleteReply(r)
  \/ UNCHANGED events /\ ReqReturn
  \/ Begin /\ SweepStart
  \/ \E h \in BOOLEAN : Goes /\ SweepProbeReply(h)
  \/ \E r \in NodeReplies : Goes /\ SweepRestartReply(r)
  \/ UNCHANGED events /\ SweepSleep

Spec == Init /\ [][Next]_vars

\* a run of one more event in a smaller environment: one node, bucket
\* services, their removal, and the service health sweep
BeginMore == /\ Settled
             /\ events < MaxEvents + 1
             /\ events' = events + 1

NextSweep ==
  \/ \E p \in Peers : BeginMore /\ RegisterNode("n1", Url(Ip("5")), p)
  \/ BeginMore /\ LaunchPlace("bucket")
  \/ \E r \in NodeReplies : Goes /\ LaunchReply(r)
  \/ \E r \in NodeReplies, d \in PollAnswers : Goes /\ PollAttempt(r, d)
  \/ Goes /\ PollExhausted
  \/ \E s \in SidSpace : BeginMore /\ RemoveService(s)
  \/ \E r \in NodeReplies : Goes /\ RemoveServiceStopReply(r)
  \/ \E r \in NodeReplies : Goes /\ RemoveServiceDeleteReply(r)
  \/ UNCHANGED events /\ ReqReturn
  \/ BeginMore /\ SweepStart
  \/ \E h \in BOOLEAN : Goes /\ SweepProbeReply(h)
  \/ \E r \in NodeReplies : Goes /\ SweepRestartReply(r)
  \/ UNCHANGED events /\ SweepSleep

SpecSweep == Init /\ [][NextSweep]_vars

\* readiness polling on its own: a managed launch has written its container
\* row and polls a node that gives the same answer to every
\* GET /containers/{id}/ports
MaxMapLen == 3      \* keys in a ports map

PortEntries ==
  {[key |-> PortKey("8000", "/tcp"), binding |-> b] :
      b \in {Published(<<3, 2, 8, 0, 1>>), EmptyList}}
  \cup {[key |-> PortKey("8000", "/udp"), binding |-> b] :
      b \in {Direct(32802), Unpublished}}
  \cup {[key |-> PortKey("5432", "/tcp"), binding |-> b] :
      b \in {Published(<<3, 2, 9, 9, 9>>), NoHostPort}}

\* a JSON object has each key once
PortMaps ==
  {m \in UNION {[1..n -> PortEntries] : n \in 0..MaxMapLen} :
     \A i, j \in 1..Len(m) : m[i].key = m[j].key => i = j}

PortsData == {[wrapped |-> w, map |-> m] : w \in BOOLEAN, m \in PortMaps}

InitPorts ==
  /\ nodes = [n \in {"n1"} |-> [url |-> Url(Ip("5")), is_healthy |-> TRUE,
                                 last_health_check |-> 1]]
  /\ nodeOrder = <<"n1">>
  /\ containers = [c \in {1} |-> [node_id |-> "n1", status |-> "running"]]
  /\ services = Empty
  /\ nextCid = 1
  /\ nextSid = 0
  /\ ACTIVE_NODES = 1
  /\ ACTIVE_CONTAINERS = 0
  /\ ACTIVE_SERVICES = [k \in KindSet |-> 0]
  /\ \E k \in KindSet, d \in PortsData :
       LET r == [Idle EXCEPT !.op = "launch", !.kind = k, !.pc = "polling",
                             !.node = "n1", !.cid = 1,
                             !.rpcs = <<Rpc("launch", "n1", 0)>>]
       IN req = [f \in DOMAIN r \cup {"answer"} |-> IF f = "answer" THEN d ELSE r[f]]
  /\ sw = SwIdle
  /\ hc = HcIdle
  /\ ws = [i \in Sessions |-> WsNone]
  /\ WEBSOCKET_CONNECTIONS = 0
  /\ docker = NoDocker
  /\ events = 2

NextPorts ==
  \/ Goes /\ PollAttempt(200, req.answer)
  \/ Goes /\ PollExhausted
  \/ UNCHANGED events /\ ReqReturn

SpecPorts == InitPorts /\ [][NextPorts]_vars

\* ---------------------------------------------------------------- container ids
\* a field of the JSON body of a node's launch reply: result.get(field) is None
\* when the field is absent, else the string it holds
NoField == [t |-> "none"]
Str(s)  == [t |-> "str", v |-> s]

\* Python's truth of such a value: None and "" are false
Truthy(x) == x.t = "str" /\ x.v # ""

\* container_id = result.get("container_id") or result.get("id"), and
\* f"container-{uuid.uuid4().hex[:8]}" if not container_id; launch_bucket_service
\* reads result.get("container_id") on both sides of the "or"
ContainerIdOf(kind, result, hex) ==
  LET second == IF kind = "bucket" THEN result.container_id ELSE result.id
      container_id == IF Truthy(result.container_id) THEN result.container_id
                                                     ELSE second
  IN IF Truthy(container_id) THEN container_id.v ELSE "container-" \o hex

\* the node's 200 answer to the launch RPC with the body it carries: the
\* container row is committed under the id taken from the body; a row with that
\* id already in the catalog makes the commit raise, which the handler's
\* "except Exception" answers with 500
LaunchReplyBody(result, hex) ==
  /\ req.pc = "launching"
  /\ LET container_id == ContainerIdOf(req.kind, result, hex)
         got == [f \in DOMAIN req \cup {"result"} |->
                   IF f = "result" THEN result ELSE req[f]]
     IN IF container_id \in DOMAIN containers
          THEN /\ req' = Done(got, 500, "launch-failed")
               /\ UNCHANGED <<containers, ACTIVE_CONTAINERS>>
          ELSE /\ containers' = Put(containers, container_id,
                                    [node_id |-> req.node, status |-> "running"])
               /\ IF req.kind = Generic
                    THEN /\ ACTIVE_CONTAINERS' = RunningCount(containers')
                         /\ req' = [Done(got, 200, "") EXCEPT !.cid = container_id]
                    ELSE /\ UNCHANGED ACTIVE_CONTAINERS
                         /\ req' = [got EXCEPT !.pc = "polling", !.cid = container_id,
                                               !.tries = 0]
  /\ UNCHANGED <<nodes, nodeOrder, services, ids, ACTIVE_NODES, ACTIVE_SERVICES,
                 sw, hc, terminal>>

\* launches on one registered node, with the bodies a node may answer: each of
\* the two id fields absent, empty or holding an id; uuid4 never repeats
NodeGivenIds == {"3fa9c1d2e4b5", "77b0a6c9d1e8"}
Fields  == {NoField, Str("")} \cup {Str(i) : i \in NodeGivenIds}
Results == {[container_id |-> c, id |-> i] : c \in Fields, i \in Fields}
Hexes   == {"0a1b2c3d", "4e5f6a7b", "8c9d0e1f"}

InitIds ==
  /\ nodes = [n \in {"n1"} |-> [url |-> Url(Ip("5")), is_healthy |-> TRUE,
                                 last_health_check |-> 1]]
  /\ nodeOrder = <<"n1">>
  /\ containers = Empty
  /\ services = Empty
  /\ nextCid = 0
  /\ nextSid = 0
  /\ ACTIVE_NODES = 0
  /\ ACTIVE_CONTAINERS = 0
  /\ ACTIVE_SERVICES = [k \in KindSet |-> 0]
  /\ req = Idle
  /\ sw = SwIdle
  /\ hc = HcIdle
  /\ ws = [i \in Sessions |-> WsNone]
  /\ WEBSOCKET_CONNECTIONS = 0
  /\ docker = NoDocker
  /\ events = 2

NextIds ==
  \/ \E k \in KindSet \cup {Generic} : Begin /\ LaunchPlace(k)
  \/ \E result \in Results, hex \in Hexes :
       /\ "container-" \o hex \notin DOMAIN containers
       /\ Goes /\ LaunchReplyBody(result, hex)
  \/ \E d \in PollAnswers : Goes /\ PollAttempt(200, d)
  \/ Goes /\ PollExhausted
  \/ UNCHANGED events /\ ReqReturn

SpecIds == InitIds /\ [][NextIds]_vars

\* ---------------------------------------------------------------- forwarded operations
\* router operations that forward a client request to the endpoint of a managed
\* service, one or two of each kind, and the table each of them queries
RouterOps == [list_bucket_files    |-> "bucket",
              upload_to_bucket     |-> "bucket",
              execute_db_sql_query |-> "db",
              save_nosql_entity    |-> "nosql",
              add_queue_message    |-> "queue",
              get_secret           |-> "secrets"]

\* what a service endpoint answers: an HTTP status, or 0 for a network error
ServiceReplies == {200, 400, 404, 500, 503, 0}

\* a forwarding operation up to its call of the service endpoint: 404 for an
\* unknown id, 503 for a service marked unhealthy.  list_bucket_files has
\* neither check: it reads bucket_service.ip_address of whatever the query
\* returned, which raises for None and is answered 500
Forward(op, s) ==
  /\ req.pc = "idle"
  /\ LET r == [Idle EXCEPT !.op = op, !.sid = s, !.kind = RouterOps[op]]
         found == s \in DOMAIN services /\ services[s].kind = RouterOps[op]
         sent == [r EXCEPT !.pc = "forward", !.ip = services[s].ip_address,
                           !.port = services[s].port]
     IN req' = IF op = "list_bucket_files"
                 THEN IF found THEN sent ELSE Done(r, 500, "Failed to list bucket files")
                 ELSE IF ~found THEN Done(r, 404, "service not found")
                 ELSE IF ~services[s].is_healthy
                   THEN Done(r, 503, "service is not healthy")
                   ELSE sent
  /\ UNCHANGED <<catalog, ids, gauges, sw, hc, terminal>>

\* the endpoint's answer: 200 is returned; any other status is raised as
\* HTTPException(status_code=resp.status_code), which "except HTTPException:
\* raise" lets through; a network error is answered 500.  get_secret returns
\* 200 with "secret": None for a 404
ForwardReply(reply) ==
  /\ req.pc = "forward"
  /\ req' = IF reply = 0 THEN Done(req, 500, "forward-failed")
            ELSE IF reply = 200 THEN Done(req, 200, "")
            ELSE IF req.op = "get_secret" /\ reply = 404 THEN Done(req, 200, "secret: None")
            ELSE Done(req, reply, "service-error")
  /\ UNCHANGED <<catalog, ids, gauges, sw, hc, terminal>>

\* the router on one registered node: managed launches, the health probe of a
\* service (which marks its row) and the forwarding operations
NextRouter ==
  \/ \E k \in KindSet : BeginMore /\ LaunchPlace(k)
  \/ \E r \in NodeReplies : Goes /\ LaunchReply(r)
  \/ \E r \in NodeReplies, d \in PollAnswers : Goes /\ PollAttempt(r, d)
  \/ Goes /\ PollExhausted
  \/ \E s \in SidSpace : BeginMore /\ CheckServiceHealth(s)
  \/ \E r \in NodeReplies : Goes /\ CheckServiceHealthReply(r)
  \/ \E op \in DOMAIN RouterOps, s \in SidSpace : BeginMore /\ Forward(op, s)
  \/ \E r \in ServiceReplies : Goes /\ ForwardReply(r)
  \/ UNCHANGED events /\ ReqReturn

SpecRouter == InitIds /\ [][NextRouter]_vars

\* ---------------------------------------------------------------- terminal sessions
\* the terminal proxy on one registered node: clients open sessions to a
\* known or an unknown node, frames and disconnects come from either side
InTerminal(i) ==
  \/ TerminalLookup(i)
  \/ \E connected \in BOOLEAN : TerminalDial(i, connected)
  \/ UserToNode(i)
  \/ NodeToUser(i)
  \/ TerminalGathered(i)

NextTerminal ==
  \/ \E i \in Sessions, n \in NodeIds : TerminalAccept(i, n)
  \/ \E i \in Sessions : InTerminal(i)
  \/ \E i \in Sessions : ClientFrame(i)
  \/ \E i \in Sessions : ClientDisconnect(i)
  \/ \E i \in Sessions : NodeFrame(i)
  \/ \E i \in Sessions : NodeClose(i)

SpecTerminal == InitIds /\ [][NextTerminal]_vars

\* the event loop runs every step of the handler that is ready; nothing
\* obliges a client or a node to send a frame or to disconnect
SpecTerminalLive == SpecTerminal /\ \A i \in Sessions : WF_vars(InTerminal(i))

\* ---------------------------------------------------------------- registered urls
\* the urls and peers of registrations, and the terminal sessions that dial
\* what was registered: a plain and a sentinel url, a url whose host ends in
\* the characters of the sentinel, an https url; peers with and without
\* X-Forwarded-For, loopback or not
Https(h)  == <<"h", "t", "t", "p", "s", ":", "/", "/">> \o h \o <<":", "9", "0", "0", "0">>
UrlTexts  == Urls \cup {Url(Ip("0")), Https(Sentinel)}
PeerTexts == Peers \cup {[client |-> Loopback6, headers |-> Forwarded(Ip("7"))],
                         [client |-> Loopback4, headers |-> NoHeaders]}

\* node n1 registers again and again, n2 never; one terminal session
NextUrl ==
  \/ \E u \in UrlTexts, p \in PeerTexts : Begin /\ RegisterNode("n1", u, p)
  \/ \E n \in NodeIds : TerminalAccept(1, n)
  \/ TerminalLookup(1)
  \/ \E connected \in BOOLEAN : TerminalDial(1, connected)

SpecUrl == InitIds /\ [][NextUrl]_vars

\* ---------------------------------------------------------------- teardown on the node
\* the node's side of a removal that meets the health sweep: the db service 1,
\* whose container 1 runs on the healthy node n1.  The node serves every RPC it
\* is sent, once, at some moment between the call and its answer, and the
\* answer is what the node did
InitTeardown ==
  /\ nodes = [n \in {"n1"} |-> [url |-> Url(Ip("5")), is_healthy |-> TRUE,
                                 last_health_check |-> 1]]
  /\ nodeOrder = <<"n1">>
  /\ containers = [c \in {1} |-> [node_id |-> "n1", status |-> "running"]]
  /\ services = [s \in {1} |-> ServiceRow("db", 1, "n1", Ip("5"), 32801)]
  /\ nextCid = 1
  /\ nextSid = 1
  /\ ACTIVE_NODES = 1
  /\ ACTIVE_CONTAINERS = 1
  /\ ACTIVE_SERVICES = [k \in KindSet |-> 0]
  /\ req = Idle
  /\ sw = SwIdle
  /\ hc = HcIdle
  /\ ws = [i \in Sessions |-> WsNone]
  /\ WEBSOCKET_CONNECTIONS = 0
  /\ docker = [state |-> [c \in {1} |-> "running"], served |-> Empty]
  /\ events = 1

\* the node has served the RPC and this is its answer
Served(rpc, reply) == rpc \in DOMAIN docker.served /\ docker.served[rpc] = reply

\* the node runs an RPC on one of its containers: a container it has not, 404
NodeRuns(rpc, c, state) ==
  /\ rpc \notin DOMAIN docker.served
  /\ docker' = IF c \in DOMAIN docker.state
                 THEN [state  |-> [docker.state EXCEPT ![c] = state],
                       served |-> Put(docker.served, rpc, 200)]
                 ELSE [docker EXCEPT !.served = Put(docker.served, rpc, 404)]
  /\ UNCHANGED <<catalog, ids, gauges, req, sw, hc, ws, WEBSOCKET_CONNECTIONS, events>>

\* the node serves the POST /containers/{id}/stop of the removal in flight
NodeServesStop ==
  /\ req.op = "remove_service" /\ req.pc = "rm_stop"
  /\ NodeRuns(<<"remove", req.sid>>, req.cid, "exited")

\* the node serves the POST /containers/{id}/start of restart_failed_service
NodeServesStart ==
  /\ sw.pc = "restart"
  /\ NodeRuns(<<"sweep", sw.began>>, sw.cid, "running")

NextTeardown ==
  \/ Begin /\ RemoveService(1)
  \/ NodeServesStop
  \/ \E r \in NodeReplies :
       Served(<<"remove", req.sid>>, r) /\ Goes /\ RemoveServiceStopReply(r)
  \/ UNCHANGED events /\ ReqReturn
  \/ Begin /\ SweepStart
  \/ \E h \in BOOLEAN : Goes /\ SweepProbeReply(h)
  \/ NodeServesStart
  \/ \E r \in NodeReplies :
       Served(<<"sweep", sw.began>>, r) /\ Goes /\ SweepRestartReply(r)
  \/ UNCHANGED events /\ SweepSleep

SpecTeardown == InitTeardown /\ [][NextTeardown]_vars

\* ---------------------------------------------------------------- container lifecycle
\* start, stop and restart of the container 1 of node n1, and of a container
\* that is not in the catalog, while liveness sweeps mark the node
InitContainer ==
  /\ nodes = [n \in {"n1"} |-> [url |-> Url(Ip("5")), is_healthy |-> TRUE,
                                 last_health_check |-> 1]]
  /\ nodeOrder = <<"n1">>
  /\ containers = [c \in {1} |-> [node_id |-> "n1", status |-> "running"]]
  /\ services = Empty
  /\ nextCid = 1
  /\ nextSid = 0
  /\ ACTIVE_NODES = 1
  /\ ACTIVE_CONTAINERS = 1
  /\ ACTIVE_SERVICES = [k \in KindSet |-> 0]
  /\ req = Idle
  /\ sw = SwIdle
  /\ hc = HcIdle
  /\ ws = [i \in Sessions |-> WsNone]
  /\ WEBSOCKET_CONNECTIONS = 0
  /\ docker = NoDocker
  /\ events = 1

NextContainer ==
  \/ \E c \in CidSpace, w \in {"start", "stop", "restart"} :
       Begin /\ StartStopContainer(c, w)
  \/ \E r \in NodeReplies : Goes /\ StartStopReply(r)
  \/ \E r \in NodeReplies : Goes /\ RestartStopReply(r)
  \/ \E r \in NodeReplies : Goes /\ RestartStartReply(r)
  \/ UNCHANGED events /\ ReqReturn
  \/ Begin /\ LivenessStart
  \/ \E r \in NodeReplies : Goes /\ LivenessReply(r)
  \/ UNCHANGED events /\ LivenessSleep

SpecContainer == InitContainer /\ [][NextContainer]_vars

TypeOK ==
  /\ DOMAIN nodes \subseteq NodeIds
  /\ DOMAIN containers \subseteq CidSpace
  /\ DOMAIN services \subseteq SidSpace
  /\ req.pc \in {"idle", "done", "launching", "polling", "del_stop", "del_delete",
                 "startstop", "hc_probe", "cfg_forward", "rm_stop", "rm_delete",
                 "node_probe"}
  /\ sw.pc \in {"idle", "probe", "restart", "done"}
  /\ hc.pc \in {"idle", "probe", "done"}

\* ---------------------------------------------------------------- properties
\* C1: every managed-service row has a container row with the same
\* container_id and the same node_id, for as long as the service row exists.
C1_ServiceHasContainer ==
  \A s \in DOMAIN services :
    /\ services[s].container_id \in DOMAIN containers
    /\ containers[services[s].container_id].node_id = services[s].node_id

\* C2: DELETE /{kind}-services/{id} for a service that exists never answers 404
\* and ends with 200 and both rows gone, whatever the node's health mark and
\* whatever the node answered to the teardown RPCs; and no step (a node
\* registering again included) brings back a service or container row once removed.
C2_Step ==
  /\ (req.pc = "idle" /\ req'.op = "remove_service" /\ req'.sid \in DOMAIN services)
       => \/ req'.pc = "rm_stop"
          \/ req'.pc = "done" /\ req'.status = 200
  /\ (req.op = "remove_service" /\ req.pc \in {"rm_stop", "rm_delete"}
        /\ req'.pc = "done") => req'.status = 200
  /\ (req'.op = "remove_service" /\ req'.pc = "done" /\ req.pc # "done"
        /\ req'.status # 404)
       => /\ req'.status = 200
          /\ req'.sid \in DOMAIN services
          /\ req'.sid \notin DOMAIN services'
          /\ services[req'.sid].container_id \notin DOMAIN containers'
  /\ \A s \in SidSpace : (s <= nextSid /\ s \notin DOMAIN services)
                            => s \notin DOMAIN services'
  /\ \A c \in CidSpace : (c <= nextCid /\ c \notin DOMAIN containers)
                            => c \notin DOMAIN containers'
C2_RemoveAlwaysRemoves == [][C2_Step]_vars

\* C2 witness: a bucket service was removed with success although the stop RPC
\* raised (the DELETE RPC was never sent)
C2_Witness ==
  /\ req.op = "remove_service" /\ req.pc = "done" /\ req.status = 200
  /\ req.kind = "bucket" /\ Len(req.rpcs) = 1
  /\ req.sid \notin DOMAIN services /\ req.cid \notin DOMAIN containers

\* C3: a launch whose readiness polling used up all its attempts answers 500
\* ("did not become ready"), leaves the container row in the catalog and has
\* created no service row for it.
C3_PollingExhausted ==
  (req.op = "launch" /\ req.pc = "done" /\ req.tries >= MAX_RETRIES)
    => /\ req.status = 500
       /\ req.detail = "not-ready"
       /\ req.cid \in DOMAIN containers
       /\ \A s \in DOMAIN services : services[s].container_id # req.cid

C3_Witness ==
  /\ req.op = "launch" /\ req.pc = "done" /\ req.tries >= MAX_RETRIES
  /\ req.kind \in KindSet /\ req.cid \in DOMAIN containers

\* C4: a launch (generic or of any of the five kinds) that finds no node marked
\* healthy answers 503 "No healthy nodes available" in that very step, having
\* sent no RPC and written no row.
C4_Step ==
  (req.pc = "idle" /\ req'.op = "launch"
     /\ \A n \in DOMAIN nodes : ~nodes[n].is_healthy)
    => /\ req'.pc = "done"
       /\ req'.status = 503
       /\ req'.detail = "No healthy nodes available"
       /\ req'.rpcs = <<>>
       /\ containers' = containers
       /\ services' = services
C4_NoHealthyNode == [][C4_Step]_vars

\* C4 witness: a 503 launch while a node is registered but marked unhealthy
C4_Witness ==
  /\ req.op = "launch" /\ req.pc = "done" /\ req.status = 503
  /\ DOMAIN nodes # {}
  /\ req.rpcs = <<>>

\* C5: the (ip_address, port) of a service row never changes; the launch
\* answered with the pair it stored, a service id is never used for a second
\* row, and GET /{kind}-services/{id} answers with the stored pair.
C5_Step ==
  /\ \A s \in DOMAIN services \cap DOMAIN services' :
       /\ services'[s].ip_address = services[s].ip_address
       /\ services'[s].port = services[s].port
  /\ \A s \in DOMAIN services' \ DOMAIN services :
       /\ s > nextSid
       /\ req'.op = "launch" /\ req'.pc = "done" /\ req'.status = 200
       /\ req'.sid = s
       /\ req'.ip = services'[s].ip_address
       /\ req'.port = services'[s].port
  /\ nextSid' >= nextSid
  /\ (req.pc = "idle" /\ req'.op = "get_service" /\ req'.status = 200)
       => /\ req'.sid \in DOMAIN services
          /\ req'.ip = services[req'.sid].ip_address
          /\ req'.port = services[req'.sid].port
C5_EndpointImmutable == [][C5_Step]_vars

\* C5 witness: GET answers the launch-time address after the node has
\* registered again under another URL
C5_Witness ==
  /\ req.op = "get_service" /\ req.pc = "done" /\ req.status = 200
  /\ req.sid \in DOMAIN services
  /\ HostOf(nodes[services[req.sid].node_id].url) # req.ip

\* C6: at the end of a sweep, every service the sweep found unhealthy and
\* could not restart (restart_failed_service returned False) has status "failed".
C6_FailedRestartMarksFailed ==
  sw.pc = "done" =>
    \A s \in sw.failed \cap DOMAIN services : services[s].status = "failed"

\* C7: while no health check is in flight (no sweep running, no per-service
\* health request waiting for its probe), a service with status "running" has
\* is_healthy = TRUE.
C7_RunningImpliesHealthy ==
  (sw.pc = "idle" /\ ~(req.op = "check_health" /\ req.pc = "hc_probe"))
    => \A s \in DOMAIN services :
         services[s].status = "running" => services[s].is_healthy

\* the sweep began with no request in flight, and no request or sweep has
\* begun since
Undisturbed == sw.pc # "idle" /\ sw.quiet /\ events = sw.began + 1

C9_Step ==
  \A s \in DOMAIN services \cap DOMAIN services' :
    services[s].status = "failed" => services'[s].status = "failed"
C9_FailedIsTerminal == [][C9_Step]_vars

\* C10: every node RPC a sweep issues is a POST /containers/{id}/start, for the
\* service being examined, for that service's container, to the node of that
\* container's row, the node being marked healthy in the row the sweep's
\* session holds, and it is the only RPC of this sweep for that service.
C10_Step ==
  Len(sw'.rpcs) > Len(sw.rpcs) =>
    LET r == sw'.rpcs[Len(sw'.rpcs)]
        s == sw.list[sw.idx]
    IN /\ sw.pc = "probe"
       /\ sw'.rpcs = Append(sw.rpcs, r)
       /\ r.op = "start"
       /\ r.sid = s
       /\ s \in DOMAIN services
       /\ r.cid = services[s].container_id
       /\ r.cid \in DOMAIN containers
       /\ r.node = containers[r.cid].node_id
       /\ r.node \in DOMAIN nodes
       /\ IF r.node \in DOMAIN sw.seen THEN sw.seen[r.node].is_healthy
                                       ELSE nodes[r.node].is_healthy
       /\ \A i \in 1..Len(sw.rpcs) : sw.rpcs[i].sid # s
       /\ nextCid' = nextCid
C10_OnlyStartRpc == [][C10_Step]_vars

\* C10 witness: the sweep is waiting for the answer to a start RPC
C10_Witness ==
  /\ sw.pc = "restart"
  /\ Len(sw.rpcs) = 1
  /\ sw.rpcs[1].node = containers[sw.rpcs[1].cid].node_id

\* C11: no sweep is cut short: when health_check_services returns, all five
\* kinds have been scanned (their gauges published) and every row of the list
\* the sweep read for a kind has been probed, whatever the probes and restarts
\* answered and whatever a concurrent DELETE removed.
C11_SweepNeverAborts ==
  sw.pc = "done" => (sw.k = Len(Kinds) /\ sw.idx > Len(sw.list))

\* a step in which health_check_services begins (sw.began is the value of
\* events before the step that began the sweep)
SweepBegins == sw'.pc # "idle" /\ sw'.began = events /\ events' = events + 1

\* C12: a service health sweep begins only while none is in progress, and a
\* sweep in progress, waiting for a probe or a start RPC however long, stays
\* the same sweep: it keeps its RPC history and goes on with the same list.
C12_Step ==
  /\ SweepBegins => sw.pc = "idle"
  /\ (sw.pc \in {"probe", "restart"} /\ sw' # sw)
       => /\ sw'.began = sw.began
          /\ sw'.list = sw.list \/ sw'.k > sw.k
          /\ Len(sw'.rpcs) >= Len(sw.rpcs)
          /\ SubSeq(sw'.rpcs, 1, Len(sw.rpcs)) = sw.rpcs
C12_OneSweepAtATime == [][C12_Step]_vars

\* C12 witness: a sweep is still waiting for a start RPC after other requests
\* or sweeps have begun
C12_Witness ==
  /\ sw.pc = "restart"
  /\ events > sw.began + 1

\* C13: when a liveness sweep ends, the active_nodes gauge is the number of
\* node rows marked healthy.
C13_GaugeAfterLivenessSweep ==
  hc.pc = "done" =>
    ACTIVE_NODES = Cardinality({n \in DOMAIN nodes : nodes[n].is_healthy})

\* a step of POST /register_node: the only step that begins something and
\* leaves the request and both sweeps as they were
RegisterStep == events' = events + 1 /\ req' = req /\ sw' = sw /\ hc' = hc

\* a step in which the liveness sweep gets the answer of a probe
LivenessAnswer == hc.pc = "probe" /\ hc' # hc

\* C14: a liveness probe that fails (non-200 or unreachable) leaves the node
\* marked unhealthy, unless the node was marked unhealthy before the probe and
\* was marked healthy again while the probe was in flight; a launch that finds
\* no node marked healthy answers 503 and sends nothing; and a node marked
\* unhealthy becomes healthy again only by registering or by passing a probe
\* (of the liveness sweep or a manual one).
C14_Step ==
  /\ LivenessAnswer =>
       LET n == hc.list[hc.idx]
           e == hc'.probed[Len(hc'.probed)]
       IN ~e.healthy => \/ ~nodes'[n].is_healthy
                        \/ ~hc.was /\ nodes[n].is_healthy
  /\ (req.pc = "idle" /\ req'.op = "launch"
        /\ \A n \in DOMAIN nodes : ~nodes[n].is_healthy)
       => req'.pc = "done" /\ req'.status = 503 /\ req'.rpcs = <<>>
  /\ \A n \in DOMAIN nodes :
       (~nodes[n].is_healthy /\ nodes'[n].is_healthy)
         => \/ RegisterStep
            \/ /\ LivenessAnswer
               /\ hc'.probed[Len(hc'.probed)] = [node |-> n, healthy |-> TRUE]
            \/ /\ req.pc = "node_probe" /\ req.node = n
               /\ req'.pc = "done" /\ req'.detail = "healthy"
C14_LivenessFlip == [][C14_Step]_vars

\* C14 witness: a launch was answered 503 after the last liveness sweep found
\* the only node unreachable
C14_Witness ==
  /\ req.op = "launch" /\ req.pc = "done" /\ req.status = 503
  /\ hc.pc = "idle"
  /\ Len(nodeOrder) = 1
  /\ hc.probed = <<[node |-> nodeOrder[1], healthy |-> FALSE]>>
  /\ ~nodes[nodeOrder[1]].is_healthy

\* C15: a liveness sweep takes the node rows registered when it starts and
\* probes them one after the other, each once: whatever a probe answers, its
\* node gets last_health_check written and is_healthy set to the answer
\* (is_healthy is left as it is only when the answer is what the sweep read
\* before the probe), and the sweep goes on to the next node; it ends after
\* the last one.
C15_Step ==
  /\ (hc.pc = "idle" /\ hc'.pc # "idle")
       => hc'.list = nodeOrder /\ hc'.probed = <<>> /\ hc'.idx = 1
  /\ LivenessAnswer =>
       LET n == hc.list[hc.idx]
           e == hc'.probed[Len(hc'.probed)]
       IN /\ hc'.probed = Append(hc.probed, e)
          /\ e.node = n
          /\ hc'.list = hc.list
          /\ hc'.idx = hc.idx + 1
          /\ nodes'[n].last_health_check = events
          /\ \/ nodes'[n].is_healthy = e.healthy
             \/ e.healthy = hc.was /\ nodes'[n].is_healthy = nodes[n].is_healthy
          /\ hc'.pc = IF hc'.idx > Len(hc'.list) THEN "done" ELSE "probe"
  /\ hc'.pc = "done"
       => /\ Len(hc'.probed) = Len(hc'.list)
          /\ \A i \in 1..Len(hc'.list) : hc'.probed[i].node = hc'.list[i]
          /\ \A i, j \in 1..Len(hc'.list) : hc'.list[i] = hc'.list[j] => i = j
C15_EveryNodeProbed == [][C15_Step]_vars

\* C15 witness: a sweep over two nodes has ended; the probe of the first one
\* failed, the second one was probed and passed
C15_Witness ==
  /\ hc.pc = "done"
  /\ Len(hc.probed) = 2
  /\ ~hc.probed[1].healthy /\ hc.probed[2].healthy
  /\ nodes[hc.probed[2].node].is_healthy

\* a registration that adds no row and changes no url: the node and the url
\* it sends are known
SameRegistration ==
  /\ RegisterStep
  /\ DOMAIN nodes' = DOMAIN nodes
  /\ \A n \in DOMAIN nodes : nodes'[n].url = nodes[n].url

\* C16 as stated: registering a known node again with the same url changes
\* nothing in the node rows but last_seen: is_healthy and last_health_check
\* of every row are as before.
C16_Step_AsStated == SameRegistration => (nodes' = nodes /\ nodeOrder' = nodeOrder)
C16_AsStated == [][C16_Step_AsStated]_vars

\* C16: registering a known node again with the same url adds no row and
\* changes nothing in the node rows but last_seen and the is_healthy of that
\* node, which is TRUE afterwards whatever it was; last_health_check of
\* every row is as before.
C16_Step ==
  SameRegistration =>
    /\ nodeOrder' = nodeOrder
    /\ \E n \in DOMAIN nodes : nodes' = [nodes EXCEPT ![n].is_healthy = TRUE]
    /\ ACTIVE_NODES' = Cardinality({n \in DOMAIN nodes' : nodes'[n].is_healthy})
C16_ReRegistration == [][C16_Step]_vars

\* C16 witness: the only node failed the probe of the last liveness sweep and
\* is marked healthy again; its last_health_check is still the one of that
\* probe, so no probe but a registration marked it; a service launched on it
\* before has the host of its url
C16_Witness ==
  /\ Len(nodeOrder) = 1
  /\ hc.pc = "idle" /\ req.pc = "idle"
  /\ hc.probed = <<[node |-> nodeOrder[1], healthy |-> FALSE]>>
  /\ nodes[nodeOrder[1]].is_healthy
  /\ nodes[nodeOrder[1]].last_health_check < events
  /\ \E s \in DOMAIN services :
       services[s].ip_address = HostOf(nodes[nodeOrder[1]].url)

\* C17: a registration of a known node_id adds no row, one of an unknown
\* node_id adds exactly one, at the end; in both cases the row of that node is
\* marked healthy afterwards and holds a url in which the sentinel host has
\* been replaced by the peer (by the first X-Forwarded-For hop for a loopback
\* peer), and no other node row changes.
C17_Step ==
  RegisterStep =>
    \E n \in NodeIds :
      /\ DOMAIN nodes' = DOMAIN nodes \cup {n}
      /\ \A m \in DOMAIN nodes \ {n} : nodes'[m] = nodes[m]
      /\ nodes'[n].is_healthy
      /\ nodes'[n].url \in {Url(Ip("5")), Url(Ip("6"))}
      /\ nodeOrder' = IF n \in DOMAIN nodes THEN nodeOrder ELSE Append(nodeOrder, n)
      /\ n \in DOMAIN nodes
           => nodes'[n].last_health_check = nodes[n].last_health_check
PortsRpcs(r) == {i \in 1..Len(r.rpcs) : r.rpcs[i].op = "ports"}

\* C18: every step of readiness polling is either an attempt, made while fewer
\* than MAX_RETRIES attempts are used up, which sends one GET .../ports and
\* either returns with a host port or uses up exactly one attempt, or, with
\* MAX_RETRIES attempts used up, the return of failure without another GET; a
\* launch never sends more than MAX_RETRIES GET .../ports.
C18_Step ==
  /\ (req.pc = "polling" /\ req' # req) =>
       \/ /\ req.tries < MAX_RETRIES
          /\ req'.rpcs = Append(req.rpcs, Rpc("ports", req.node, req.cid))
          /\ \/ /\ req'.pc = "polling"
                /\ req'.tries = req.tries + 1
                /\ services' = services
             \/ /\ req'.pc = "done" /\ req'.status = 200
                /\ req'.port # 0
                /\ req'.tries = req.tries
       \/ /\ req.tries = MAX_RETRIES
          /\ req'.rpcs = req.rpcs
          /\ req'.pc = "done" /\ req'.status = 500 /\ req'.detail = "not-ready"
          /\ services' = services
  /\ req'.op = "launch" =>
       /\ Cardinality(PortsRpcs(req')) <= MAX_RETRIES
       /\ req'.tries <= MAX_RETRIES
       /\ Cardinality(PortsRpcs(req')) =
            req'.tries + (IF req'.pc = "done" /\ req'.status = 200
                            /\ req'.kind # Generic THEN 1 ELSE 0)
C18_PollingTerminates == [][C18_Step]_vars

\* C18 witness: a launch succeeded at its last attempt, after MAX_RETRIES - 1
\* attempts that gave no host port
C18_Witness ==
  /\ req.op = "launch" /\ req.pc = "done" /\ req.status = 200
  /\ req.tries = MAX_RETRIES - 1
  /\ Cardinality(PortsRpcs(req)) = MAX_RETRIES

\* the layered choice of a host port: the host ports of the exact key if it
\* has one, otherwise those of the keys with the same number that have one,
\* otherwise the first host port of the map, otherwise none (0)
LayeredHostPorts(ports_dict, service_port) ==
  LET hp(i)   == extract_host_port(ports_dict[i].binding)
      usable  == {i \in 1..Len(ports_dict) : hp(i) # 0}
      exact   == {i \in usable : ports_dict[i].key = service_port}
      numeric == {i \in usable : Base(ports_dict[i].key) = Base(service_port)}
  IN IF exact # {} THEN {hp(i) : i \in exact}
     ELSE IF numeric # {} THEN {hp(i) : i \in numeric}
     ELSE IF usable # {} THEN {hp(First(usable))}
     ELSE {0}

\* C19: polling a node that answers with a given ports map returns with a host
\* port of the layered choice for that map, and uses up an attempt only if the
\* layered choice is none.
C19_LayeredPort ==
  ("answer" \in DOMAIN req /\ req.pc \in {"polling", "done"}) =>
    LET layered == LayeredHostPorts(PortsDict(req.answer), ServicePort(req.kind)) IN
      /\ (req.pc = "done" /\ req.status = 200) => req.port \in layered \ {0}
      /\ req.tries > 0 => layered = {0}

\* C20: a container row appears only in the step in which a launch gets the
\* node's answer to its launch RPC, sent before and alone; a service row
\* appears only in a later step of the same launch, a GET .../ports that gave
\* a host port, for the container row written before, with that host port;
\* the RPCs of a launch are the launch RPC followed by GET .../ports only; and
\* GET /{kind}-services/{id} answers 200 only for a row that has a host port.
C20_Step ==
  /\ \A c \in DOMAIN containers' \ DOMAIN containers :
       /\ req.op = "launch" /\ req.pc = "launching"
       /\ req.rpcs = <<Rpc("launch", req.node, 0)>>
       /\ req'.rpcs = req.rpcs
       /\ req'.cid = c
       /\ containers'[c].node_id = req.node
       /\ services' = services
       /\ IF req.kind = Generic THEN req'.pc = "done" /\ req'.status = 200
                                ELSE req'.pc = "polling"
  /\ \A s \in DOMAIN services' \ DOMAIN services :
       /\ req.op = "launch" /\ req.pc = "polling" /\ req.kind \in KindSet
       /\ req.cid \in DOMAIN containers
       /\ containers' = containers
       /\ services'[s].container_id = req.cid
       /\ services'[s].node_id = containers[req.cid].node_id
       /\ req'.rpcs = Append(req.rpcs, Rpc("ports", req.node, req.cid))
       /\ services'[s].port # 0
       /\ req'.pc = "done" /\ req'.status = 200
       /\ req'.sid = s /\ req'.port = services'[s].port
  /\ req'.op = "launch" =>
       \A i \in 1..Len(req'.rpcs) :
         req'.rpcs[i].op = IF i = 1 THEN "launch" ELSE "ports"
  /\ (req.pc = "idle" /\ req'.op = "get_service" /\ req'.status = 200)
       => req'.sid \in DOMAIN services /\ services[req'.sid].port # 0
C20_LaunchOrder == [][C20_Step]_vars

\* C20 witness: a db launch has answered 200 after the launch RPC, one
\* GET .../ports without a host port and one with it
C20_Witness ==
  /\ req.op = "launch" /\ req.pc = "done" /\ req.status = 200 /\ req.kind = "db"
  /\ Len(req.rpcs) = 3
  /\ req.sid \in DOMAIN services /\ req.cid \in DOMAIN containers
  /\ services[req.sid].container_id = req.cid

\* ---------------------------------------------------------------- C21
\* the position of a node in the registry's insertion order
RegisteredAt(n) == CHOOSE i \in 1..Len(nodeOrder) : nodeOrder[i] = n

\* C21: a launch that finds a healthy node sends its launch RPC to the
\* earliest-registered node among those marked healthy when placement read the
\* catalog, keeps that node to its end, and records it as node_id of the
\* container row and of the service row it writes
C21_Step ==
  /\ (req.pc = "idle" /\ req'.op = "launch" /\ req'.pc = "launching") =>
       /\ req'.node \in DOMAIN nodes /\ nodes[req'.node].is_healthy
       /\ \A m \in DOMAIN nodes :
            nodes[m].is_healthy => RegisteredAt(req'.node) <= RegisteredAt(m)
       /\ req'.rpcs = <<Rpc("launch", req'.node, 0)>>
  /\ (req.pc = "idle" /\ req'.op = "launch" /\ req'.pc = "done") =>
       /\ \A m \in DOMAIN nodes : ~nodes[m].is_healthy
       /\ req'.rpcs = <<>>
  /\ (req.op = "launch" /\ req.pc # "idle" /\ req' # req /\ req'.pc # "idle") =>
       req'.node = req.node
  /\ \A c \in DOMAIN containers' \ DOMAIN containers :
       req.op = "launch" /\ containers'[c].node_id = req.node
  /\ \A s \in DOMAIN services' \ DOMAIN services :
       req.op = "launch" /\ services'[s].node_id = req.node
C21_FirstHealthyNode == [][C21_Step]_vars

\* C21 witness: a managed launch has answered 200 on the second node of the
\* registry, the first one being marked unhealthy, and both rows name that node
C21_Witness ==
  /\ req.op = "launch" /\ req.pc = "done" /\ req.status = 200
  /\ Len(nodeOrder) = 2 /\ req.node = nodeOrder[2]
  /\ ~nodes[nodeOrder[1]].is_healthy
  /\ req.sid \in DOMAIN services /\ services[req.sid].node_id = req.node
  /\ req.cid \in DOMAIN containers /\ containers[req.cid].node_id = req.node

\* ---------------------------------------------------------------- C22
\* the ids a launch reply carries in its field container_id or id
CarriedIds(result) ==
  {x.v : x \in {y \in {result.container_id, result.id} : Truthy(y)}}

\* C22: for the generic launch and each managed launch, the container row
\* written on a successful launch reply has the id the reply carries in
\* container_id or id, and a synthetic container-<8-hex> id only when the reply
\* carries none
C22_Step ==
  \A c \in DOMAIN containers' \ DOMAIN containers :
    IF CarriedIds(req'.result) # {}
      THEN c \in CarriedIds(req'.result)
      ELSE c \in {"container-" \o hex : hex \in Hexes}
C22_NodeSuppliedId == [][C22_Step]_vars

\* ---------------------------------------------------------------- C26
\* the 4xx statuses among the answers of a node
ClientErrors == {r \in NodeReplies : r >= 400 /\ r < 500}

\* C26: when the node answers the launch RPC of a launch, or the start / stop
\* RPC of POST /containers/{id}/start|stop, with a 4xx status, the response to
\* the client carries that same status
C26_NodeErrorPassThrough ==
  \A r \in ClientErrors :
    /\ req.pc = "launching" => ENABLED (LaunchReply(r) /\ req'.status = r)
    /\ req.pc = "startstop" => ENABLED (StartStopReply(r) /\ req'.status = r)

\* ---------------------------------------------------------------- C23
\* C23: a router operation that forwards a client request to a managed service
\* whose row is marked unhealthy answers 503 and sends nothing to the service
\* endpoint (here PUT /db-services/{id}/config, the forwarding operation that
\* this specification has)
C23_Step ==
  (/\ req.pc = "idle" /\ req'.op = "update_config"
   /\ req'.sid \in DOMAIN services
   /\ services[req'.sid].kind = "db"
   /\ ~services[req'.sid].is_healthy)
    => req'.pc = "done" /\ req'.status = 503
C23_UnhealthyDependency == [][C23_Step]_vars

\* ---------------------------------------------------------------- C24
\* C24: a router operation addressed to a service id that has no row of its
\* kind in the catalog answers 404 and calls nothing, listing the files of an
\* unknown bucket service included
C24_Step ==
  (/\ req.pc = "idle"
   /\ req'.op \in DOMAIN RouterOps \cup {"check_health"}
   /\ \/ req'.sid \notin DOMAIN services
      \/ req'.op \in DOMAIN RouterOps /\ services[req'.sid].kind # RouterOps[req'.op])
    => req'.pc = "done" /\ req'.status = 404
C24_NotFound == [][C24_Step]_vars

\* ---------------------------------------------------------------- C25
\* C25: while a forwarded router operation waits for a healthy service, a 4xx
\* answer of the service is answered with the same status, and a 5xx answer
\* or a network error with 500
C25_ErrorTranslation ==
  (req.pc = "forward" /\ services[req.sid].is_healthy) =>
    \A r \in ServiceReplies :
      /\ (r >= 400 /\ r < 500) => ENABLED (ForwardReply(r) /\ req'.status = r)
      /\ (r >= 500 \/ r = 0) => ENABLED (ForwardReply(r) /\ req'.status = 500)

\* ---------------------------------------------------------------- C27
\* C27: for every kind, DELETE /{kind}-services/{id} of a service whose node
\* is marked healthy sends POST /containers/{id}/stop to the node, then
\* DELETE /containers/{id}, and deletes the service row and the container row
\* only after both
C27_Step ==
  /\ (/\ req.pc = "idle" /\ req'.op = "remove_service"
      /\ req'.sid \in DOMAIN services
      /\ services[req'.sid].container_id \in DOMAIN containers
      /\ LET n == containers[services[req'.sid].container_id].node_id
         IN n \in DOMAIN nodes /\ nodes[n].is_healthy)
       => /\ req'.pc = "rm_stop"
          /\ req'.rpcs = <<Rpc("stop", req'.node, req'.cid)>>
          /\ services' = services /\ containers' = containers
  /\ (req.pc = "rm_stop" /\ req' # req)
       => /\ req'.pc = "rm_delete"
          /\ req'.rpcs = <<Rpc("stop", req.node, req.cid), Rpc("delete", req.node, req.cid)>>
          /\ services' = services /\ containers' = containers
  /\ (req.pc = "rm_delete" /\ req' # req)
       => /\ req'.pc = "done"
          /\ req.sid \notin DOMAIN services' /\ req.cid \notin DOMAIN containers'
C27_TeardownOrder == [][C27_Step]_vars

\* ---------------------------------------------------------------- C28
\* C28: DELETE /containers/{id} on an existing container keeps the row while
\* the node cleanup is under way and removes it when the cleanup is over,
\* whatever its outcome: no RPC at all for a node that is not marked healthy,
\* any status answered to the stop or to the DELETE, or a network error
C28_Step ==
  /\ (req.pc = "idle" /\ req'.op = "delete_container" /\ req'.cid \in DOMAIN containers)
       => LET n == containers[req'.cid].node_id IN
          IF n \in DOMAIN nodes /\ nodes[n].is_healthy
            THEN /\ req'.pc = "del_stop" /\ containers' = containers
                 /\ req'.rpcs = <<Rpc("stop", n, req'.cid)>>
            ELSE /\ req'.pc = "done" /\ req'.status = 200 /\ req'.rpcs = <<>>
                 /\ req'.cid \notin DOMAIN containers'
  /\ (req.pc = "del_stop" /\ req' # req)
       => \/ /\ req'.pc = "del_delete" /\ containers' = containers
             /\ req'.rpcs = Append(req.rpcs, Rpc("delete", req.node, req.cid))
          \/ /\ req'.pc = "done" /\ req'.status = 200 /\ req'.rpcs = req.rpcs
             /\ req.cid \notin DOMAIN containers'
  /\ (req.pc = "del_delete" /\ req' # req)
       => /\ req'.pc = "done" /\ req'.status = 200
          /\ req.cid \notin DOMAIN containers'
  /\ req.pc = "del_stop" =>
       \A r \in NodeReplies :
         ENABLED (DeleteContainerStopReply(r) /\ (r # 0 => req'.pc = "del_delete"))
  /\ req.pc = "del_delete" =>
       \A r \in NodeReplies : ENABLED DeleteContainerDeleteReply(r)
  /\ (req.op = "delete_container" /\ req.pc \in {"del_stop", "del_delete"})
       => req.cid \in DOMAIN containers
C28_DeleteAlwaysRemoves == [][C28_Step]_vars

\* C28 witness: a delete has answered 200 with the row gone after the stop RPC
\* raised a network error, and the node's DELETE was never sent
C28_Witness ==
  /\ req.op = "delete_container" /\ req.pc = "done" /\ req.status = 200
  /\ req.rpcs = <<Rpc("stop", req.node, req.cid)>>
  /\ req.cid \notin DOMAIN containers

\* ---------------------------------------------------------------- C29
\* C29: in a terminal proxy session, once the client has gone or the node has
\* closed, both copy tasks and the session end, with no further frame needed
\* from the other side
C29_DisconnectEndsSession ==
  \A i \in Sessions :
    (ws[i].pc = "relay" /\ (ws[i].client = "closed" \/ ws[i].node = "closed"))
      ~> (ws[i].pc = "exited")

\* ---------------------------------------------------------------- C30
\* C30: the websocket-connections gauge equals the number of terminal proxy
\* sessions accepted and not yet exited, on every path (unknown node, failed
\* dial, disconnect of either side); it is never negative
C30_GaugeCountsSessions ==
  /\ WEBSOCKET_CONNECTIONS =
       Cardinality({i \in Sessions : ws[i].pc \in {"accepted", "dialing", "relay"}})
  /\ WEBSOCKET_CONNECTIONS >= 0

\* C30 witness: every session of the run has been accepted and has exited, one
\* for an unknown node and one after its relay ended, and the gauge is back at 0
C30_Witness ==
  /\ \A i \in Sessions : ws[i].pc = "exited"
  /\ \E i \in Sessions : ws[i].node_id \notin DOMAIN nodes
  /\ \E i \in Sessions : ws[i].up = "ended" /\ ws[i].down = "ended"
  /\ WEBSOCKET_CONNECTIONS = 0

\* ---------------------------------------------------------------- C31
\* close codes that tell a client of an error of the application: policy
\* violation, internal error, and the private range
ApplicationErrors == {1008, 1011} \cup (4000..4999)

\* C31: a terminal proxy session that names a node_id with no row in the
\* catalog ends with the client socket closed with an application-error close
\* code, and no connection to a node was dialled
C31_UnknownNodeClose ==
  \A i \in Sessions :
    (ws[i].pc = "exited" /\ ws[i].node_id \notin DOMAIN nodes /\ ws[i].client = "open")
      => /\ ws[i].close \in ApplicationErrors
         /\ ws[i].node = "none"

\* ---------------------------------------------------------------- C32
\* the url u with its host, the text between "://" and the next ":", set to h
WithHost(u, h) ==
  LET parts == Split(u, <<":", "/", "/">>)
      host  == Split(parts[2], <<":">>)[1]
  IN  parts[1] \o <<":", "/", "/">> \o h \o SubSeq(parts[2], Len(host) + 1, Len(parts[2]))

\* C32: a registration stores a url whose host is the sentinel 0.0.0.0 with
\* the sentinel replaced by the direct peer IP, or by the first entry of
\* X-Forwarded-For when the peer is loopback and sent that header (the header
\* is ignored for any other peer); a url without the sentinel host is stored
\* unchanged
C32_Step ==
  \A u \in UrlTexts, p \in PeerTexts :
    RegisterNode("n1", u, p) =>
      nodes'["n1"].url =
        IF HostOf(u) = Sentinel
          THEN WithHost(u, IF p.client \in {Loopback4, Loopback6}
                                /\ "x-forwarded-for" \in DOMAIN p.headers
                             THEN Strip(Split(p.headers["x-forwarded-for"], <<",">>)[1])
                             ELSE p.client)
          ELSE u
C32_SentinelSubstitution == [][C32_Step]_vars

\* ---------------------------------------------------------------- C34
\* the url with its scheme swapped: http to ws, https to wss, the rest kept
SwapScheme(url) ==
  LET parts == Split(url, <<":", "/", "/">>)
      rest  == SubSeq(url, Len(parts[1]) + 1, Len(url))
  IN  CASE parts[1] = <<"h", "t", "t", "p">>      -> <<"w", "s">> \o rest
        [] parts[1] = <<"h", "t", "t", "p", "s">> -> <<"w", "s", "s">> \o rest
        [] OTHER -> url

\* C34: the url the terminal proxy dials is the node's registered url with
\* only the scheme swapped, http to ws and https to wss, followed by
\* /ws/terminal/{container_id}
C34_Step ==
  \A i \in Sessions :
    (ws[i].pc = "accepted" /\ ws'[i].pc = "dialing") =>
      ws'[i].node_ws_url =
        SwapScheme(nodes[ws[i].node_id].url)
          \o <<"/", "w", "s", "/", "t", "e", "r", "m", "i", "n", "a", "l", "/">>
          \o ws[i].container_id
C34_SchemeSwap == [][C34_Step]_vars

\* ---------------------------------------------------------------- C33
\* C33: when a service health sweep has run to its end, the gauge of each kind
\* equals the number of service rows of that kind with is_healthy = true at
\* that moment, whatever requests completed during the sweep
C33_GaugeAfterServiceSweep ==
  (sw.pc = "done" /\ sw.result = "completed") =>
    \A kind \in KindSet :
      ACTIVE_SERVICES[kind] =
        Cardinality({s \in DOMAIN services :
                       services[s].kind = kind /\ services[s].is_healthy})

\* ---------------------------------------------------------------- C35
\* C35: once the removal of a service has returned success, the node being
\* marked healthy and having answered the stop RPC, the service's container is
\* not running on the node, whatever a concurrent health sweep that found the
\* service unhealthy does
C35_RemovedMeansStopped ==
  (1 \notin DOMAIN services /\ Served(<<"remove", 1>>, 200))
    => (1 \in DOMAIN docker.state => docker.state[1] # "running")

\* ---------------------------------------------------------------- C36
\* C36: the answer to a liveness probe that was sent before the node
\* registered again (the row's url is no longer the one the probe went to)
\* does not take away the healthy = true that the registration wrote
C36_Step ==
  LivenessAnswer =>
    LET n == hc.list[hc.idx] IN
      (hc.health_url # nodes[n].url /\ nodes[n].is_healthy) => nodes'[n].is_healthy
C36_OlderProbeKeepsHealthy == [][C36_Step]_vars

\* ---------------------------------------------------------------- C37
\* C37: when the node answers the launch RPC of a generic or managed launch
\* with anything but 200, or the call raises, the launch returns an error, no
\* row of the catalog is created or changed and no readiness poll is sent; a
\* launch that leaves the launch RPC without an error has stored its
\* container row
C37_Step ==
  /\ \A reply \in NodeReplies \ {200} :
       LaunchReply(reply) =>
         /\ req'.pc = "done" /\ req'.status >= 400
         /\ <<nodes', nodeOrder', containers', services'>> = catalog
         /\ req'.rpcs = req.rpcs
  /\ (req.pc = "launching" /\ req' # req) =>
       \/ /\ req'.pc = "done" /\ req'.status >= 400
          /\ <<nodes', nodeOrder', containers', services'>> = catalog
       \/ /\ req'.cid \in DOMAIN containers' \ DOMAIN containers
          /\ req'.pc = "polling" \/ (req'.pc = "done" /\ req'.status = 200)
C37_LaunchFailureLeavesCatalog == [][C37_Step]_vars

\* C37 witness: a managed launch has answered 500 after its launch RPC failed,
\* with the launch RPC as its only RPC and no container row in the catalog
C37_Witness ==
  /\ req.op = "launch" /\ req.kind \in KindSet
  /\ req.pc = "done" /\ req.status = 500 /\ req.detail = "launch-failed"
  /\ Len(req.rpcs) = 1
  /\ containers = Empty /\ services = Empty

\* ---------------------------------------------------------------- C38
\* C38: POST /containers/{id}/start, /stop and /restart write the row's
\* status (running, stopped, running) only in the step in which the node's
\* 200 arrives and the request answers 200; any other answer of the node
\* leaves the row as it was; for a container whose node is not marked healthy
\* the request answers 503 and has sent no RPC; a request that ends in an
\* error has changed no container row
C38_Step ==
  /\ containers' # containers =>
       /\ req.op \in {"start", "stop", "restart"}
       /\ req.pc \in {"startstop", "restart_start"}
       /\ req'.pc = "done" /\ req'.status = 200
       /\ containers' = [containers EXCEPT ![req.cid].status = StatusAfter(req.op)]
  /\ \A reply \in NodeReplies \ {200} :
       (StartStopReply(reply) \/ RestartStartReply(reply)) =>
         /\ containers' = containers
         /\ req'.pc = "done" => req'.status >= 400
  /\ (req.pc = "idle" /\ req'.op \in {"start", "stop", "restart"}
        /\ req'.cid \in DOMAIN containers
        /\ ~nodes[containers[req'.cid].node_id].is_healthy)
       => req'.pc = "done" /\ req'.status = 503 /\ req'.rpcs = <<>>
  /\ (req.pc # "done" /\ req'.pc = "done" /\ req'.status >= 400)
       => containers' = containers
C38_StatusOnSuccessOnly == [][C38_Step]_vars

\* C38 witness: a restart of a stopped container has answered 200 through the
\* stop-then-start fallback and the row is running
C38_Witness ==
  /\ req.op = "restart" /\ req.pc = "done" /\ req.status = 200
  /\ Len(req.rpcs) = 3
  /\ req.cst = "stopped"
  /\ containers[req.cid].status = "running"

\* ---------------------------------------------------------------- C39
\* C39: a PUT /db-services/{id}/config whose forward to the SQL service
\* raised has failed and has left the limits of the catalog row as they were
\* before the request
C39_ConfigOnlyWhenForwarded ==
  (/\ req.op = "update_config" /\ req.pc = "done" /\ req.status = 500
   /\ req.sid \in DOMAIN services)
    => services[req.sid].max_ram_mb = req.before

\* ---------------------------------------------------------------- C40
\* C40: whenever no request and no sweep is in flight, the active_containers
\* gauge equals the number of container rows with status running
C40_GaugeCountsRunning ==
  (req.pc = "idle" /\ sw.pc = "idle" /\ hc.pc = "idle")
    => ACTIVE_CONTAINERS = RunningCount(containers)

====
